---------------------------- MODULE Spec2Model ----------------------------
(***************************************************************************)
(* A model of the Hiya voice concierge: the conversation-turn pipeline of  *)
(* VoicePersonalAssistant.handle_audio (transcribe, classify, dispatch,    *)
(* synthesize, persist), the intent classifier adapter run_voice_agent,    *)
(* the intent handlers, and the calendar-sync upsert on the synced-event   *)
(* table.                                                                  *)
(*                                                                         *)
(* Python values are modelled as follows.  Text is a TLA+ string.  None is *)
(* the string NoneV.  A dict is a function whose DOMAIN is its key set.    *)
(* A float confidence c is the integer 1000*c.  A list is a sequence.      *)
(***************************************************************************)
EXTENDS Integers, Sequences, FiniteSets, TLC

VARIABLES
    pc,              \* position of handle_audio: transcribe .. done / raised
    client,          \* run_voice_agent.CLIENT is not None
    speech_ok,       \* SpeechService.is_configured()
    user_id,         \* VoicePersonalAssistant.user_id
    transcription,   \* local of handle_audio
    errors,          \* local of handle_audio
    agent_result,    \* local of handle_audio
    execution,       \* local of handle_audio (the Handler Result)
    response_text,   \* local of handle_audio
    audio_output,    \* local of handle_audio
    result,          \* the returned VoiceInteractionResult, NoResult before
    raised,          \* the exception that escaped handle_audio, NoneV if none
    calls,           \* backend calls made during the turn, per backend
    stage,           \* what each stage of the turn did (for the claims)
    conversations,   \* table conversations (append order)
    calendar_events, \* table calendar_events (insert order)
    clock,           \* datetime.utcnow(), as a tick counter
    last_sync,       \* SpecSync: the latest _sync_calendar_events call, <<>> before
    cal_event,       \* SpecFormat: the event _format_calendar_response renders
    entry,           \* SpecFormat: the line rendered for it, NoneV before
    turns,           \* SpecTurns: the handle_audio invocations in flight
    pair,            \* SpecPair: two turns that differ in the confidence only
    session,         \* SpecSession: one use of DatabaseManager.get_session
    app,             \* SpecApp: the latest voice_assistant_interface call, <<>> before
    users_table,     \* SpecRegister: table users (insert order)
    signup           \* SpecRegister: the latest register_user call, <<>> before

vars == <<pc, client, speech_ok, user_id, transcription, errors, agent_result,
          execution, response_text, audio_output, result, raised, calls, stage,
          conversations, calendar_events, clock, last_sync, cal_event, entry, turns,
          pair, session, app, users_table, signup>>

\* the variables of the specifications of the entry points and the sessions
ext_vars == <<pair, session, app, users_table, signup>>

\* the variables of the other specifications
other_vars == <<cal_event, entry, turns, ext_vars>>

turn_vars == <<transcription, errors, agent_result, execution, response_text,
               audio_output, result, raised>>

-----------------------------------------------------------------------------
(* Python values *)

NoneV == "<None>"

\* bool(v) of a str-or-None value
Truthy(v) == v /= NoneV /\ v /= ""

\* a or b
Or(a, b) == IF Truthy(a) THEN a ELSE b

\* d.get(k): None when the key is missing
Get(d, k) == IF k \in DOMAIN d THEN d[k] ELSE NoneV

\* d.get(k, default)
GetD(d, k, default) == IF k \in DOMAIN d THEN d[k] ELSE default

\* the empty dict {}
EmptyDict == [k \in {} |-> NoneV]

\* needle in s
Contains(s, needle) ==
    \E i \in 1..(Len(s) - Len(needle) + 1) :
        SubSeq(s, i, i + Len(needle) - 1) = needle

\* s.strip() for the whitespace the model uses (spaces and newlines)
IsSpace(c) == c \in {" ", "\n", "\t"}

RECURSIVE LStrip(_)
LStrip(s) == IF Len(s) > 0 /\ IsSpace(SubSeq(s, 1, 1)) THEN LStrip(SubSeq(s, 2, Len(s))) ELSE s

RECURSIVE RStrip(_)
RStrip(s) ==
    IF Len(s) > 0 /\ IsSpace(SubSeq(s, Len(s), Len(s)))
    THEN RStrip(SubSeq(s, 1, Len(s) - 1)) ELSE s

Strip(s) == RStrip(LStrip(s))

\* int(v) of a JSON value: a number (its decimal digits) or a string
DigitVal(c) ==
    CASE c = "0" -> 0 [] c = "1" -> 1 [] c = "2" -> 2 [] c = "3" -> 3 [] c = "4" -> 4
      [] c = "5" -> 5 [] c = "6" -> 6 [] c = "7" -> 7 [] c = "8" -> 8 [] c = "9" -> 9
      [] OTHER -> -1

IsDigits(s) == Len(s) > 0 /\ \A i \in 1..Len(s) : DigitVal(SubSeq(s, i, i)) >= 0

RECURSIVE DigitsVal(_)
DigitsVal(s) ==
    IF Len(s) = 0 THEN 0
    ELSE 10 * DigitsVal(SubSeq(s, 1, Len(s) - 1)) + DigitVal(SubSeq(s, Len(s), Len(s)))

\* int(v) raises TypeError on None and ValueError on text that is no integer
IntRaises(v) ==
    LET t == Strip(v) IN
    \/ v = NoneV
    \/ ~(IsDigits(t) \/ (Len(t) > 1 /\ SubSeq(t, 1, 1) = "-" /\ IsDigits(SubSeq(t, 2, Len(t)))))

IntOf(v) ==
    LET t == Strip(v) IN
    IF SubSeq(t, 1, 1) = "-" THEN 0 - DigitsVal(SubSeq(t, 2, Len(t))) ELSE DigitsVal(t)

-----------------------------------------------------------------------------
(* Bounds of the model *)

\* the longest event list the calendar client returns
MaxEvents == 2

\* SpecSync: the number of calendar syncs in one behaviour
MaxSyncs == 3

\* SpecTurns: the number of handle_audio invocations in flight together
MaxTurns == 2

\* SpecSession: the most rows the body of one session adds
MaxAdds == 2

\* SpecApp: the number of voice_assistant_interface calls in one behaviour
MaxRequests == 2

\* SpecRegister: the number of register_user calls in one behaviour
MaxRegistrations == 3

-----------------------------------------------------------------------------
(* Dict construction for the input pools *)

Absent == "<absent>"

\* {k: v}, or {} when the key is left out
KV(k, v) == IF v = Absent THEN EmptyDict ELSE (k :> v)

-----------------------------------------------------------------------------
(* SpeechService *)

FallbackTranscription == "I could not transcribe your audio. Please try again."

\* what the transcription backend does with an audio file
TranscribeBackend == {"raise", "empty", "text"}

\* SpeechService.transcribe: [raises, exc, value]
transcribe(configured, file_exists, backend) ==
    IF ~configured
    THEN [raises |-> TRUE, exc |-> "Speech service is not configured. Provide OPENAI_API_KEY.",
          value |-> NoneV]
    ELSE IF ~file_exists
    THEN [raises |-> TRUE, exc |-> "Audio file does_not_exist.wav not found.", value |-> NoneV]
    ELSE IF backend = "raise"
    THEN [raises |-> TRUE, exc |-> "Connection error.", value |-> NoneV]
    ELSE [raises |-> FALSE, exc |-> NoneV,
          value |-> IF backend = "empty" THEN "" ELSE "Check my flights next week"]

\* what the synthesis backend does (lines 104-140): the streaming create
\* answers or raises; after a TypeError it is called again without the format
\* argument; after a second TypeError the non-streaming create is called
SynthBackend == {"ok", "raise", "retry_ok", "retry_raise", "fallback_ok", "fallback_raise"}

\* the backend outcomes that leave an audio file
SynthWrites == {"ok", "retry_ok", "fallback_ok"}

\* the number of create calls _synthesize makes
SynthCalls(backend) ==
    IF backend \in {"ok", "raise"} THEN 1
    ELSE IF backend \in {"retry_ok", "retry_raise"} THEN 2
    ELSE 3

\* a synthesize that does not look at the text
synthesize_any_text(configured, text, backend) ==
    IF ~configured THEN NoneV
    ELSE IF backend \notin SynthWrites THEN NoneV
    ELSE "output/audio/assistant_" \o ToString(clock) \o ".mp3"

\* SpeechService.synthesize: the audio reference, or None; it catches the
\* backend's exceptions
synthesize(configured, text, backend) ==
    IF ~configured THEN NoneV
    ELSE IF Strip(text) = "" THEN NoneV
    ELSE IF backend \notin SynthWrites THEN NoneV
    ELSE "output/audio/assistant_" \o ToString(clock) \o ".mp3"

-----------------------------------------------------------------------------
(* run_voice_agent *)

\* parameters the handlers read, as the classifier may return them
PushParams ==
    { KV("message", m) @@ KV("content", c) @@ KV("title", t) @@ KV("priority", p) :
        m \in {Absent, "", "Boarding at 6pm"}, c \in {Absent, "Gate B4"},
        t \in {Absent, "Heads up"}, p \in {Absent, "1", "high"} }

EmailParams ==
    { KV("to_email", a) @@ KV("recipient", r) @@ KV("subject", s) @@ KV("body", b)
        @@ KV("message", m) :
        a \in {Absent, "", "ana@example.com"}, r \in {Absent, "bo@example.com"},
        s \in {Absent, "Trip"}, b \in {Absent, "", "See you at the gate."},
        m \in {Absent, "Hello"} }

CalendarParams ==
    { KV("keyword", k) @@ KV("subject", s) @@ KV("within_days", w) @@ KV("max_results", n) :
        k \in {Absent, "flight"}, s \in {Absent, "trip"},
        w \in {Absent, "soon"}, n \in {Absent, "1"} }

SmalltalkParams == { KV("reply", r) : r \in {Absent, "", "Hi there!"} }

ClarificationParams == { KV("question", q) : q \in {Absent, "Which day?"} }

\* intent names: the five of the dispatch table, and others
KnownIntents == {"calendar_lookup", "push_notification", "send_email", "smalltalk",
                 "clarification"}

OtherIntents == {"unknown", "", "book_flight", Absent}

Summaries == {Absent, "", "  ", "Checking your flights."}

\* 1000 * confidence; NoConfidence when the key is left out
NoConfidence == 0 - 1

\* "confidence": null, which the backend may send when the schema is not
\* enforced
NullConfidence == 0 - 2

Confidences == {NoConfidence, NullConfidence, 0, 800, 1000}

AgentDict(intent, params, follow_up, summary, confidence) ==
    KV("intent", intent) @@ ("parameters" :> params) @@ KV("follow_up", follow_up)
        @@ KV("summary", summary)
        @@ (IF confidence = NoConfidence THEN EmptyDict ELSE ("confidence" :> confidence))

\* the JSON objects the backend may answer with
AgentData ==
    \* every parameter combination of each handler
    { AgentDict("push_notification", p, Absent, "Sending.", 800) : p \in PushParams }
    \cup { AgentDict("send_email", p, Absent, "Emailing.", 800) : p \in EmailParams }
    \cup { AgentDict("calendar_lookup", p, Absent, "Checking your flights.", 800) :
             p \in CalendarParams }
    \cup { AgentDict("smalltalk", p, Absent, "Chatting.", 1000) : p \in SmalltalkParams }
    \cup { AgentDict("clarification", p, f, "Asking.", 0) :
             p \in ClarificationParams, f \in {Absent, NoneV, "", "When do you leave?"} }
    \* every intent with every summary and confidence
    \cup { AgentDict(i, EmptyDict, Absent, s, c) :
             i \in KnownIntents \cup OtherIntents, s \in Summaries, c \in Confidences }
    \* fields the schema requires left out
    \cup { KV("intent", i) : i \in KnownIntents \cup OtherIntents }

\* response.output_text with what json.loads makes of it
Payloads ==
    { [text |-> t, json |-> "invalid", data |-> EmptyDict] : t \in {"", "Sorry, I can't do that."} }
    \cup { [text |-> "[1, 2]", json |-> "list", data |-> EmptyDict] }
    \cup { [text |-> "{...}", json |-> "dict", data |-> d] : d \in AgentData }

\* CLIENT.responses.create: returns, or raises the TypeError of a client without
\* response_format, or raises anything else
CreateOutcomes == {"ok", "no_response_format", "error"}

\* data.setdefault(k, v)
SetDefault(d, k, v) == IF k \in DOMAIN d THEN d ELSE d @@ (k :> v)

\* _call_openai after a response arrived (lines 97-125)
parse_response(payload) ==
    IF payload.json = "invalid"
    THEN ("intent" :> "unknown") @@ ("confidence" :> 0) @@ ("parameters" :> EmptyDict)
         @@ ("follow_up" :> "I could not parse the model response. Could you rephrase?")
         @@ ("summary" :> payload.text)
    ELSE IF payload.json /= "dict"
    THEN ("intent" :> "unknown") @@ ("confidence" :> 0) @@ ("parameters" :> EmptyDict)
         @@ ("follow_up" :> "I received an unexpected reply. Please try again.")
         @@ ("summary" :> payload.text)
    ELSE SetDefault(SetDefault(SetDefault(payload.data, "parameters", EmptyDict),
                               "confidence", 0), "summary", payload.text)

\* run_voice_agent: [raises, exc, value, backend_calls]
run_voice_agent(configured, first, retry, payload) ==
    IF ~configured
    THEN [raises |-> FALSE, exc |-> NoneV, backend_calls |-> 0,
          value |-> ("intent" :> "unknown") @@ ("confidence" :> 0)
                    @@ ("parameters" :> EmptyDict)
                    @@ ("explanation" :> "OpenAI client is not configured. Provide OPENAI_API_KEY.")]
    ELSE IF first = "error"
    THEN [raises |-> TRUE, exc |-> "APIConnectionError", backend_calls |-> 1, value |-> EmptyDict]
    ELSE IF first = "no_response_format" /\ retry /= "ok"
    THEN [raises |-> TRUE,
          exc |-> IF retry = "error" THEN "APIConnectionError" ELSE "TypeError",
          backend_calls |-> 2, value |-> EmptyDict]
    ELSE [raises |-> FALSE, exc |-> NoneV,
          backend_calls |-> IF first = "ok" THEN 1 ELSE 2,
          value |-> parse_response(payload)]

-----------------------------------------------------------------------------
(* datetime *)

\* no datetime (None where a datetime is expected)
NoDt == [null |-> TRUE]

\* value.replace("Z", "+00:00")
RECURSIVE ReplaceZ(_)
ReplaceZ(s) ==
    IF Len(s) = 0 THEN ""
    ELSE (IF SubSeq(s, 1, 1) = "Z" THEN "+00:00" ELSE SubSeq(s, 1, 1))
         \o ReplaceZ(SubSeq(s, 2, Len(s)))

\* the integer at s[i..j], or -1 when a character is no digit
Field(s, i, j) == IF IsDigits(SubSeq(s, i, j)) THEN DigitsVal(SubSeq(s, i, j)) ELSE 0 - 1

\* a UTC offset "+HH:MM" or "-HH:MM"
IsOffset(s) ==
    /\ Len(s) = 6
    /\ SubSeq(s, 1, 1) \in {"+", "-"}
    /\ SubSeq(s, 4, 4) = ":"
    /\ Field(s, 2, 3) \in 0..23
    /\ Field(s, 5, 6) \in 0..59

\* datetime.fromisoformat accepts YYYY-MM-DD and YYYY-MM-DD?HH:MM:SS[+HH:MM]
IsoDateOk(s) ==
    /\ Len(s) >= 10
    /\ SubSeq(s, 5, 5) = "-"
    /\ SubSeq(s, 8, 8) = "-"
    /\ Field(s, 1, 4) >= 1
    /\ Field(s, 6, 7) \in 1..12
    /\ Field(s, 9, 10) \in 1..31

IsoTimeOk(s) ==
    /\ Len(s) \in {19, 25}
    /\ SubSeq(s, 14, 14) = ":"
    /\ SubSeq(s, 17, 17) = ":"
    /\ Field(s, 12, 13) \in 0..23
    /\ Field(s, 15, 16) \in 0..59
    /\ Field(s, 18, 19) \in 0..59
    /\ (Len(s) = 25 => IsOffset(SubSeq(s, 20, 25)))

IsoOk(s) == IsoDateOk(s) /\ (Len(s) = 10 \/ IsoTimeOk(s))

fromisoformat(s) ==
    [year |-> Field(s, 1, 4), month |-> Field(s, 6, 7), day |-> Field(s, 9, 10),
     hour |-> IF Len(s) = 10 THEN 0 ELSE Field(s, 12, 13),
     minute |-> IF Len(s) = 10 THEN 0 ELSE Field(s, 15, 16),
     second |-> IF Len(s) = 10 THEN 0 ELSE Field(s, 18, 19),
     tz |-> IF Len(s) = 25 THEN SubSeq(s, 20, 25) ELSE ""]

\* datetime.utcnow()
utcnow(tick) == [now |-> tick]

\* VoicePersonalAssistant._parse_datetime
parse_datetime(value) ==
    IF ~Truthy(value) THEN NoDt
    ELSE IF IsoOk(ReplaceZ(value)) THEN fromisoformat(ReplaceZ(value))
    ELSE NoDt

MonthAbbr == <<"Jan", "Feb", "Mar", "Apr", "May", "Jun", "Jul", "Aug", "Sep", "Oct", "Nov", "Dec">>

\* a number as two digits (%d, %I, %M)
TwoDigits(n) == IF n < 10 THEN "0" \o ToString(n) ELSE ToString(n)

\* strftime("%b %d at %I:%M %p")
strftime(dt) ==
    MonthAbbr[dt.month] \o " " \o TwoDigits(dt.day) \o " at "
        \o TwoDigits(IF dt.hour % 12 = 0 THEN 12 ELSE dt.hour % 12) \o ":"
        \o TwoDigits(dt.minute) \o " " \o (IF dt.hour < 12 THEN "AM" ELSE "PM")

\* a _format_datetime that hides a value it cannot parse
format_datetime_unspecified(value) ==
    IF ~Truthy(value) THEN "an unspecified time"
    ELSE IF IsoOk(ReplaceZ(value)) THEN strftime(fromisoformat(ReplaceZ(value)))
    ELSE "an unspecified time"

\* VoicePersonalAssistant._format_datetime
format_datetime(value) ==
    IF ~Truthy(value) THEN "an unspecified time"
    ELSE IF IsoOk(ReplaceZ(value)) THEN strftime(fromisoformat(ReplaceZ(value)))
    ELSE value

-----------------------------------------------------------------------------
(* Calendar events as the provider returns them *)

EvFlight ==
    ("id" :> "evt1") @@ ("summary" :> "Flight to SFO")
        @@ ("start" :> ("dateTime" :> "2024-10-19T18:00:00Z"))
        @@ ("end" :> ("dateTime" :> "2024-10-19T20:30:00Z")) @@ ("location" :> "SFO")

\* the same external id with other fields
EvFlightMoved ==
    ("id" :> "evt1") @@ ("summary" :> "Flight to SFO (moved)") @@ ("description" :> "Rebooked")
        @@ ("start" :> ("date" :> "2024-10-20"))

\* no id, no start
EvNoId == ("summary" :> "Flight to SFO")

\* no summary, a start that is no ISO timestamp
EvBare == ("id" :> "evt2") @@ ("start" :> ("dateTime" :> "tomorrow"))

EventPool == {EvFlight, EvFlightMoved, EvNoId, EvBare}

RECURSIVE SeqsUpTo(_, _)
SeqsUpTo(S, n) ==
    IF n = 0 THEN {<<>>}
    ELSE LET shorter == SeqsUpTo(S, n - 1) IN
         shorter \cup { Append(q, x) : q \in {r \in shorter : Len(r) = n - 1}, x \in S }

\* the event lists list_upcoming_events may return
Batches == SeqsUpTo(EventPool, MaxEvents)

\* event.get(key, {}).get("dateTime") or event.get(key, {}).get("date")
EventTime(event, key) ==
    LET when == GetD(event, key, EmptyDict) IN Or(Get(when, "dateTime"), Get(when, "date"))

\* one line of the calendar reply (lines 391-402)
EventLine(event) ==
    LET start == EventTime(event, "start")
        end == EventTime(event, "end")
        start_display == format_datetime(start)
        end_display == IF Truthy(end) THEN format_datetime(end) ELSE ""
    IN  "- " \o GetD(event, "summary", "Untitled event") \o " on " \o start_display
        \o (IF end_display /= "" /\ end_display /= start_display
            THEN " until " \o end_display ELSE "")
        \o (IF Truthy(Get(event, "location")) THEN " at " \o event["location"] ELSE "")

RECURSIVE EventLines(_)
EventLines(events) ==
    IF Len(events) = 0 THEN ""
    ELSE "\n" \o EventLine(Head(events)) \o EventLines(Tail(events))

\* lines 387-404: the summary of a non-empty event list
CalendarSummary(events, keyword) ==
    "Here are your next " \o ToString(Len(events)) \o " events"
        \o (IF Truthy(keyword) THEN " related to " \o keyword ELSE "") \o ":"
        \o EventLines(events)

\* a formatter that leaves the reply for no events to its caller
format_calendar_response_blank(events, keyword) ==
    IF Len(events) = 0 THEN "" ELSE CalendarSummary(events, keyword)

\* VoicePersonalAssistant._format_calendar_response
format_calendar_response(events, keyword) ==
    IF Len(events) = 0
    THEN "I didn't find any upcoming events that match your request."
    ELSE CalendarSummary(events, keyword)

-----------------------------------------------------------------------------
(* The calendar_events table and the calendar-sync upsert *)

\* the rows of (user id, external id)
Matches(rows, uid, external_id) ==
    { i \in 1..Len(rows) : rows[i].user_id = uid /\ rows[i].external_id = external_id }

\* lines 432-435: the row found is updated in place
UpdateRecord(record, event) ==
    LET start == EventTime(event, "start")
        end == EventTime(event, "end")
        start_dt == parse_datetime(start)
        end_dt == IF Truthy(end) THEN parse_datetime(end) ELSE NoDt
    IN  [record EXCEPT
            !.title = GetD(event, "summary", record.title),
            !.description = GetD(event, "description", record.description),
            !.start_time = IF start_dt /= NoDt THEN start_dt ELSE record.start_time,
            !.end_time = IF end_dt /= NoDt THEN end_dt ELSE record.end_time]

\* lines 438-445: CalendarEvent(...)
NewRecord(uid, event, tick) ==
    LET start == EventTime(event, "start")
        end == EventTime(event, "end")
        start_dt == parse_datetime(start)
        end_dt == IF Truthy(end) THEN parse_datetime(end) ELSE NoDt
    IN  [user_id |-> uid,
         external_id |-> event["id"],
         title |-> GetD(event, "summary", "Untitled event"),
         description |-> Get(event, "description"),
         start_time |-> IF start_dt /= NoDt THEN start_dt ELSE utcnow(tick),
         end_time |-> end_dt]

\* what the query of lines 426-430 sees: the rows of the database, not the rows
\* session.add() holds back until the commit (SessionLocal has autoflush=False)
QueryRows(rows, pending) == rows

\* the loop of lines 418-446 inside one session: rows are the rows of the
\* database as the session holds them, pending the rows added and not flushed
RECURSIVE SyncLoop(_, _, _, _, _)
SyncLoop(rows, pending, uid, events, tick) ==
    IF Len(events) = 0 THEN [raises |-> FALSE, rows |-> rows, pending |-> pending]
    ELSE LET event == Head(events)
             external_id == Get(event, "id")
             seen == QueryRows(rows, pending)
             found == Matches(seen, uid, external_id)
         IN  IF ~Truthy(external_id) THEN SyncLoop(rows, pending, uid, Tail(events), tick)
             ELSE IF Cardinality(found) > 1
             THEN [raises |-> TRUE, rows |-> rows, pending |-> pending]
             ELSE IF Cardinality(found) = 1
             THEN LET i == CHOOSE j \in found : TRUE IN
                  SyncLoop([rows EXCEPT ![i] = UpdateRecord(rows[i], event)], pending, uid,
                           Tail(events), tick)
             ELSE SyncLoop(rows, Append(pending, NewRecord(uid, event, tick)), uid,
                           Tail(events), tick)

\* the session of the sync runs a statement (so that its commit can fail)
SyncTouchesDb(events) == \E i \in 1..Len(events) : Truthy(Get(events[i], "id"))

\* a session that keeps what the body did when the body or the commit raised
get_session_keep(table, body, commit) ==
    IF body.raises THEN [raises |-> TRUE, exc |-> body.exc, table |-> body.table]
    ELSE IF commit = "raise"
    THEN [raises |-> TRUE, exc |-> "OperationalError", table |-> body.table]
    ELSE [raises |-> FALSE, exc |-> NoneV, table |-> body.table]

\* DatabaseManager.get_session around a body: commit when the body returned,
\* roll back and re-raise when the body or the commit raised
\* body: [raises, exc, table]; commit: "ok" or "raise"
get_session(table, body, commit) ==
    IF body.raises THEN [raises |-> TRUE, exc |-> body.exc, table |-> table]
    ELSE IF commit = "raise"
    THEN [raises |-> TRUE, exc |-> "OperationalError", table |-> table]
    ELSE [raises |-> FALSE, exc |-> NoneV, table |-> body.table]

\* a sync that drops the user's rows for events the provider no longer returns
sync_calendar_events_purge(table, uid, events, tick, commit) ==
    IF Len(events) = 0 THEN [raises |-> FALSE, exc |-> NoneV, table |-> table]
    ELSE LET returned == { Get(events[i], "id") : i \in 1..Len(events) }
             kept == SelectSeq(table, LAMBDA row :
                                  row.user_id /= uid \/ row.external_id \in returned)
             loop == SyncLoop(kept, <<>>, uid, events, tick)
         IN  get_session(table,
                         [raises |-> loop.raises, exc |-> "MultipleResultsFound",
                          table |-> loop.rows \o loop.pending],
                         IF SyncTouchesDb(events) THEN commit ELSE "ok")

\* VoicePersonalAssistant._sync_calendar_events: [raises, exc, table]
sync_calendar_events(table, uid, events, tick, commit) ==
    IF Len(events) = 0 THEN [raises |-> FALSE, exc |-> NoneV, table |-> table]
    ELSE LET loop == SyncLoop(table, <<>>, uid, events, tick) IN
         get_session(table,
                     [raises |-> loop.raises, exc |-> "MultipleResultsFound",
                      table |-> loop.rows \o loop.pending],
                     IF SyncTouchesDb(events) THEN commit ELSE "ok")

CommitOutcomes == {"ok", "raise"}

-----------------------------------------------------------------------------
(* The intent handlers.  Each takes the classified parameters, the follow-up  *)
(* question, what its integration does (env: configured, call, events,        *)
(* commit) and the synced-event table, and yields                             *)
(*   [raises, exc, value, table, called]                                      *)
(* where value is the Handler Result and called lists the client operations  *)
(* it invoked.                                                                *)

HandlerResult(text, events, notifications, errs) ==
    [response_text |-> text, calendar_events |-> events, notifications |-> notifications,
     errors |-> errs]

Returns(value, table, called) ==
    [raises |-> FALSE, exc |-> NoneV, value |-> value, table |-> table, called |-> called]

Raises(exc, table, called) ==
    [raises |-> TRUE, exc |-> exc, value |-> HandlerResult("", <<>>, <<>>, <<>>),
     table |-> table, called |-> called]

UnhandledReply == "I'm not sure how to help with that yet, but I'm learning every day!"

NoEventsReply == "I could not find any matching events in your calendar."

\* lines 253-261: the fallback reply and the Handler Result
CalendarResult(text, found, errs, table, called) ==
    Returns(HandlerResult(IF text = "" /\ Len(errs) = 0 THEN NoEventsReply ELSE text,
                          found, <<>>, errs), table, called)

CalendarUnconfigured ==
    "Google Calendar integration is not configured. "
        \o "Set GOOGLE_SERVICE_ACCOUNT_FILE or GOOGLE_SERVICE_ACCOUNT_JSON."

\* VoicePersonalAssistant._handle_calendar_lookup
handle_calendar_lookup(parameters, follow_up, env, table, uid, tick) ==
    LET keyword == Or(Get(parameters, "keyword"), Get(parameters, "subject"))
        within_days == GetD(parameters, "within_days", "7")
        max_results == GetD(parameters, "max_results", "5")
        sync == sync_calendar_events(table, uid, env.events, tick, env.commit)
    IN  IF ~env.configured THEN CalendarResult("", <<>>, <<CalendarUnconfigured>>, table, <<>>)
        ELSE IF IntRaises(within_days) \/ IntRaises(max_results)
        THEN CalendarResult("", <<>>, <<"Calendar lookup failed: invalid literal for int()">>,
                            table, <<>>)
        ELSE IF env.call = "raise"
        THEN CalendarResult("", <<>>, <<"Calendar lookup failed: HttpError">>, table,
                            <<"calendar">>)
        ELSE IF sync.raises
        THEN CalendarResult(format_calendar_response(env.events, keyword), env.events,
                            <<"Calendar lookup failed: " \o sync.exc>>, sync.table,
                            <<"calendar">>)
        ELSE CalendarResult(format_calendar_response(env.events, keyword), env.events,
                            <<>>, sync.table, <<"calendar">>)

\* VoicePersonalAssistant._handle_push_notification
handle_push_notification(parameters, follow_up, env, table, uid, tick) ==
    LET message == Or(Get(parameters, "message"), Get(parameters, "content"))
        title == Or(Get(parameters, "title"), "Reminder from Hiya Assistant")
        priority == GetD(parameters, "priority", "0")
    IN  IF IntRaises(priority) THEN Raises("ValueError", table, <<>>)
        ELSE IF ~Truthy(message)
        THEN Returns(HandlerResult("What would you like me to include in the push notification?",
                                   <<>>, <<>>, <<>>), table, <<>>)
        ELSE IF ~env.configured
        THEN Returns(HandlerResult("I could not send the push notification.", <<>>, <<>>,
                                   <<"Pushover credentials are not configured.">>), table, <<>>)
        ELSE IF env.call = "raise"
        THEN Returns(HandlerResult("I could not send the push notification.", <<>>, <<>>,
                                   <<"Pushover notification failed: HTTPStatusError">>),
                     table, <<"pushover">>)
        ELSE Returns(HandlerResult("I sent your push notification.", <<>>,
                                   << [channel |-> "pushover",
                                       result |-> ("status" :> "1") @@ ("message" :> message)
                                                  @@ ("title" :> title)
                                                  @@ ("priority" :> ToString(IntOf(priority)))] >>,
                                   <<>>), table, <<"pushover">>)

\* lines 327-349: the send once recipient and body are there
SendEmail(to_email, subject, body, env, table) ==
    IF ~env.configured
    THEN Returns(HandlerResult("I could not send the email.", <<>>, <<>>,
                               <<"SendGrid credentials are not configured.">>), table, <<>>)
    ELSE IF env.call = "raise"
    THEN Returns(HandlerResult("I could not send the email.", <<>>, <<>>,
                               <<"SendGrid email failed: HTTPStatusError">>),
                 table, <<"sendgrid">>)
    ELSE Returns(HandlerResult("I sent the email as requested.", <<>>,
                               << [channel |-> "sendgrid",
                                   result |-> ("status" :> "queued")] >>,
                               <<>>), table, <<"sendgrid">>)

AskRecipient(table) ==
    Returns(HandlerResult("Who should I email? Please provide an email address.",
                          <<>>, <<>>, <<>>), table, <<>>)

AskBody(table) ==
    Returns(HandlerResult("What would you like me to say in the email?",
                          <<>>, <<>>, <<>>), table, <<>>)

\* a send_email handler that checks the body before the recipient
handle_send_email_body_first(parameters, follow_up, env, table, uid, tick) ==
    LET to_email == Or(Get(parameters, "to_email"), Get(parameters, "recipient"))
        subject == Or(Get(parameters, "subject"), "Update from Hiya Assistant")
        body == Or(Get(parameters, "body"), Get(parameters, "message"))
    IN  IF ~Truthy(body) THEN AskBody(table)
        ELSE IF ~Truthy(to_email) THEN AskRecipient(table)
        ELSE SendEmail(to_email, subject, body, env, table)

\* VoicePersonalAssistant._handle_send_email
handle_send_email(parameters, follow_up, env, table, uid, tick) ==
    LET to_email == Or(Get(parameters, "to_email"), Get(parameters, "recipient"))
        subject == Or(Get(parameters, "subject"), "Update from Hiya Assistant")
        body == Or(Get(parameters, "body"), Get(parameters, "message"))
    IN  IF ~Truthy(to_email) THEN AskRecipient(table)
        ELSE IF ~Truthy(body) THEN AskBody(table)
        ELSE SendEmail(to_email, subject, body, env, table)

\* VoicePersonalAssistant._handle_smalltalk
handle_smalltalk(parameters, follow_up, env, table, uid, tick) ==
    Returns(HandlerResult(Or(Get(parameters, "reply"),
                             "Happy to help! What else can I do for you?"),
                          <<>>, <<>>, <<>>), table, <<>>)

\* VoicePersonalAssistant._handle_clarification
handle_clarification(parameters, follow_up, env, table, uid, tick) ==
    Returns(HandlerResult(Or(follow_up, Or(Get(parameters, "question"),
                                           "Could you clarify what you need?")),
                          <<>>, <<>>, <<>>), table, <<>>)

\* an unhandled-intent handler that reports the intent as an error
handle_unknown_reporting(parameters, follow_up, env, table, uid, tick) ==
    Returns(HandlerResult(UnhandledReply, <<>>, <<>>, <<"Unsupported intent.">>), table, <<>>)

\* VoicePersonalAssistant._handle_unknown
handle_unknown(parameters, follow_up, env, table, uid, tick) ==
    Returns(HandlerResult(UnhandledReply, <<>>, <<>>, <<>>), table, <<>>)

\* a dispatch whose default arm is the smalltalk handler
HandlerOfDefaultSmalltalk(intent) ==
    LET name == Or(intent, "unknown") IN
    IF name \in KnownIntents THEN name ELSE "smalltalk"

\* the handler the dispatch table of _execute_intent selects (lines 215-223)
HandlerOf(intent) ==
    LET name == Or(intent, "unknown") IN
    IF name \in KnownIntents THEN name ELSE "unhandled"

\* VoicePersonalAssistant._execute_intent
execute_intent(intent, parameters, follow_up, env, table, uid, tick) ==
    CASE HandlerOf(intent) = "calendar_lookup" ->
            handle_calendar_lookup(parameters, follow_up, env, table, uid, tick)
      [] HandlerOf(intent) = "push_notification" ->
            handle_push_notification(parameters, follow_up, env, table, uid, tick)
      [] HandlerOf(intent) = "send_email" ->
            handle_send_email(parameters, follow_up, env, table, uid, tick)
      [] HandlerOf(intent) = "smalltalk" ->
            handle_smalltalk(parameters, follow_up, env, table, uid, tick)
      [] HandlerOf(intent) = "clarification" ->
            handle_clarification(parameters, follow_up, env, table, uid, tick)
      [] OTHER -> handle_unknown(parameters, follow_up, env, table, uid, tick)

-----------------------------------------------------------------------------
(* VoicePersonalAssistant.handle_audio, one action per stage *)

NoResult == [none |-> TRUE]

NoExecution == [none |-> TRUE]

NoCalls == [transcribe |-> 0, classifier |-> 0, calendar |-> 0, pushover |-> 0,
            sendgrid |-> 0, synthesize |-> 0]

\* an integration that is not configured
NoEnv == [configured |-> FALSE, call |-> "raise", events |-> <<>>, commit |-> "ok"]

\* what the stages did so far
NoStage == [transcribe |-> "pending", heard |-> NoneV, classify |-> "pending",
            backend |-> "none", handler |-> "none", reply |-> NoneV, events |-> <<>>, execute |-> "pending",
            synthesize |-> "pending", persist |-> "pending", env |-> NoEnv,
            asked |-> NoneV]

Init ==
    /\ pc = "transcribe"
    /\ signup = <<>>
    /\ users_table = <<>>
    /\ app = <<>>
    /\ session = <<>>
    /\ client \in BOOLEAN
    /\ speech_ok = client      \* both are built from OPENAI_API_KEY
    /\ user_id = 1
    /\ transcription = NoneV
    /\ errors = <<>>
    /\ agent_result = EmptyDict
    /\ execution = NoExecution
    /\ response_text = NoneV
    /\ audio_output = NoneV
    /\ result = NoResult
    /\ raised = NoneV
    /\ calls = NoCalls
    /\ stage = NoStage
    /\ conversations = <<>>
    /\ calendar_events = <<>>
    /\ clock = 1
    /\ last_sync = <<>>
    /\ cal_event = EmptyDict
    /\ entry = NoneV
    /\ turns = <<>>
    /\ pair = <<>>

\* a turn that keeps the transcription as it came
NormalizeTranscriptionKeep(heard) == heard

\* lines 169-170: if not transcription
NormalizeTranscription(heard) == IF heard = "" THEN FallbackTranscription ELSE heard

\* lines 161-172
Transcribe ==
    /\ pc = "transcribe"
    /\ \E file_exists \in BOOLEAN, backend \in TranscribeBackend :
         \E r \in {transcribe(speech_ok, file_exists, backend)} :
         LET heard == IF r.raises THEN "" ELSE r.value
         IN  /\ transcription' = NormalizeTranscription(heard)
             /\ errors' = IF r.raises THEN <<"Transcription failed: " \o r.exc>> ELSE <<>>
             /\ calls' = [calls EXCEPT !.transcribe = IF speech_ok /\ file_exists THEN 1 ELSE 0]
             /\ stage' = [stage EXCEPT !.transcribe = IF r.raises THEN "raised" ELSE "returned",
                                       !.heard = r.value]
    /\ pc' = "classify"
    /\ UNCHANGED <<other_vars, client, speech_ok, user_id, agent_result, execution, response_text,
                   audio_output, result, raised, conversations, calendar_events, clock,
                   last_sync>>

\* line 174
Classify ==
    /\ pc = "classify"
    /\ \E first \in CreateOutcomes, retry \in CreateOutcomes, payload \in Payloads :
         \E r \in {run_voice_agent(client, first, retry, payload)} :
         /\ calls' = [calls EXCEPT !.classifier = r.backend_calls]
         /\ IF r.raises
            THEN /\ pc' = "raised"
                 /\ raised' = r.exc
                 /\ agent_result' = agent_result
                 /\ stage' = [stage EXCEPT !.classify = "raised", !.backend = "error",
                                           !.asked = transcription]
            ELSE /\ pc' = "execute"
                 /\ raised' = raised
                 /\ agent_result' = r.value
                 /\ stage' = [stage EXCEPT !.classify = "returned",
                                           !.asked = transcription,
                                           !.backend = IF client THEN payload.json
                                                       ELSE "unconfigured"]
    /\ UNCHANGED <<other_vars, client, speech_ok, user_id, transcription, errors, execution,
                   response_text, audio_output, result, conversations, calendar_events,
                   clock, last_sync>>

\* lines 175-178
IntentOf(agent) == GetD(agent, "intent", "unknown")

ConfidenceOf(agent) == GetD(agent, "confidence", 0)

\* line 176: float(None) raises TypeError
FloatRaises(confidence) == confidence = NullConfidence

ParametersOf(agent) == GetD(agent, "parameters", EmptyDict)

FollowUpOf(agent) == Get(agent, "follow_up")

\* an error list that puts the handler's errors first
ExtendErrorsInFront(errs, handler_errors) == handler_errors \o errs

\* line 181: errors.extend(execution.get("errors", []))
ExtendErrors(errs, handler_errors) == errs \o handler_errors

\* lines 183-185
ResolveReply(handler_reply, agent) ==
    Or(handler_reply, GetD(agent, "summary", "I processed your request."))

\* what the integration of the selected handler may do
Envs(handler, parameters) ==
    IF handler = "calendar_lookup"
    THEN { NoEnv, [NoEnv EXCEPT !.configured = TRUE] }
         \cup { [configured |-> TRUE, call |-> "ok", events |-> b, commit |-> c] :
                  b \in { e \in Batches :
                            \/ IntRaises(GetD(parameters, "max_results", "5"))
                            \/ Len(e) <= IntOf(GetD(parameters, "max_results", "5")) },
                  c \in CommitOutcomes }
    ELSE IF handler \in {"push_notification", "send_email"}
    THEN { [NoEnv EXCEPT !.configured = cf, !.call = cl] :
             cf \in BOOLEAN, cl \in {"ok", "raise"} }
    ELSE { NoEnv }

Count(called, name) == Cardinality({ i \in 1..Len(called) : called[i] = name })

\* lines 175-187
Execute ==
    /\ pc = "execute"
    /\ LET intent == IntentOf(agent_result)
           parameters == ParametersOf(agent_result)
           follow_up == FollowUpOf(agent_result)
       IN  IF FloatRaises(ConfidenceOf(agent_result))
           THEN /\ pc' = "raised"
                /\ raised' = "TypeError"
                /\ UNCHANGED <<execution, errors, response_text, calendar_events, calls, stage>>
           ELSE
           \E env \in Envs(HandlerOf(intent), parameters) :
             \E r \in {execute_intent(intent, parameters, follow_up, env, calendar_events,
                                        user_id, clock)} :
                 /\ calendar_events' = r.table
                 /\ calls' = [calls EXCEPT !.calendar = Count(r.called, "calendar"),
                                           !.pushover = Count(r.called, "pushover"),
                                           !.sendgrid = Count(r.called, "sendgrid")]
                 /\ IF r.raises
                    THEN /\ pc' = "raised"
                         /\ raised' = r.exc
                         /\ UNCHANGED <<execution, errors, response_text>>
                         /\ stage' = [stage EXCEPT !.handler = HandlerOf(intent),
                                                   !.env = env,
                                                   !.execute = "raised"]
                    ELSE /\ pc' = "synthesize"
                         /\ raised' = raised
                         /\ execution' = r.value
                         /\ errors' = ExtendErrors(errors, r.value.errors)
                         /\ response_text' = ResolveReply(r.value.response_text, agent_result)
                         /\ stage' = [stage EXCEPT !.handler = HandlerOf(intent),
                                                   !.reply = r.value.response_text,
                                                   !.events = env.events,
                                                   !.env = env,
                                                   !.execute = "returned"]
    /\ UNCHANGED <<other_vars, client, speech_ok, user_id, transcription, agent_result, audio_output,
                   result, conversations, clock, last_sync>>

\* line 189
Synthesize ==
    /\ pc = "synthesize"
    /\ \E backend \in SynthBackend :
         /\ audio_output' = synthesize(speech_ok, response_text, backend)
         /\ calls' = [calls EXCEPT !.synthesize =
                         IF speech_ok /\ Strip(response_text) /= ""
                         THEN SynthCalls(backend) ELSE 0]
         /\ stage' = [stage EXCEPT !.synthesize = IF speech_ok /\ Strip(response_text) /= ""
                                                  THEN backend ELSE "skipped"]
    /\ pc' = "persist"
    /\ UNCHANGED <<other_vars, client, speech_ok, user_id, transcription, errors, agent_result,
                   execution, response_text, result, raised, conversations,
                   calendar_events, clock, last_sync>>

\* a log value that is the confidence itself
ConfidenceUnscaled(confidence) == confidence

\* int(confidence * 100)
ConfidencePct(confidence) == (confidence * 100) \div 1000

\* a persistence that keeps one row per user, the latest
persist_conversation_latest(table, uid, text, response, intent, confidence, commit) ==
    get_session(table,
                [raises |-> FALSE, exc |-> NoneV,
                 table |-> Append(SelectSeq(table, LAMBDA row : row.user_id /= uid),
                                  [user_id |-> uid, user_message |-> text,
                                   ai_response |-> response, intent |-> intent,
                                   confidence |-> ConfidencePct(confidence)])],
                commit)

\* VoicePersonalAssistant._persist_conversation: [raises, exc, table]
persist_conversation(table, uid, text, response, intent, confidence, commit) ==
    get_session(table,
                [raises |-> FALSE, exc |-> NoneV,
                 table |-> Append(table, [user_id |-> uid, user_message |-> text,
                                          ai_response |-> response, intent |-> intent,
                                          confidence |-> ConfidencePct(confidence)])],
                commit)

\* a result that drops the handler's event list
VoiceInteractionResultNoEvents ==
    [transcription |-> transcription,
     response_text |-> response_text,
     audio_path |-> audio_output,
     intent |-> IntentOf(agent_result),
     confidence |-> ConfidenceOf(agent_result),
     calendar_events |-> <<>>,
     notifications |-> execution.notifications,
     errors |-> errors]

\* lines 198-207
VoiceInteractionResult ==
    [transcription |-> transcription,
     response_text |-> response_text,
     audio_path |-> audio_output,
     intent |-> IntentOf(agent_result),
     confidence |-> ConfidenceOf(agent_result),
     calendar_events |-> execution.calendar_events,
     notifications |-> execution.notifications,
     errors |-> errors]

\* lines 191-207
Persist ==
    /\ pc = "persist"
    /\ \E commit \in CommitOutcomes :
         \E r \in {persist_conversation(conversations, user_id, transcription,
                                          response_text, IntentOf(agent_result),
                                          ConfidenceOf(agent_result), commit)} :
             /\ conversations' = r.table
             /\ IF r.raises
                THEN /\ pc' = "raised"
                     /\ raised' = r.exc
                     /\ result' = result
                     /\ stage' = [stage EXCEPT !.persist = "raised"]
                ELSE /\ pc' = "done"
                     /\ raised' = raised
                     /\ result' = VoiceInteractionResult
                     /\ stage' = [stage EXCEPT !.persist = "committed"]
    /\ UNCHANGED <<other_vars, client, speech_ok, user_id, transcription, errors, agent_result,
                   execution, response_text, audio_output, calls, calendar_events, clock,
                   last_sync>>

Next == Transcribe \/ Classify \/ Execute \/ Synthesize \/ Persist

Spec == Init /\ [][Next]_vars

-----------------------------------------------------------------------------
(* The calendar sync on its own: calendar-lookup turns of user 1, one after  *)
(* the other, each syncing the events its lookup returned.                    *)

\* the table holds nothing, or an event another user synced
InitSync ==
    /\ pc = "sync"
    /\ signup = <<>>
    /\ users_table = <<>>
    /\ app = <<>>
    /\ session = <<>>
    /\ client = FALSE
    /\ speech_ok = FALSE
    /\ user_id = 1
    /\ transcription = NoneV
    /\ errors = <<>>
    /\ agent_result = EmptyDict
    /\ execution = NoExecution
    /\ response_text = NoneV
    /\ audio_output = NoneV
    /\ result = NoResult
    /\ raised = NoneV
    /\ calls = NoCalls
    /\ stage = NoStage
    /\ conversations = <<>>
    /\ calendar_events \in { <<>>, <<NewRecord(2, EvFlight, 0)>> }
    /\ clock = 1
    /\ last_sync = <<>>
    /\ cal_event = EmptyDict
    /\ entry = NoneV
    /\ turns = <<>>
    /\ pair = <<>>

\* line 248: self._sync_calendar_events(events)
SyncEvents ==
    /\ pc = "sync"
    /\ clock <= MaxSyncs
    /\ \E events \in Batches, commit \in CommitOutcomes :
         \E r \in {sync_calendar_events(calendar_events, user_id, events, clock, commit)} :
             /\ calendar_events' = r.table
             /\ last_sync' = << [events |-> events, raises |-> r.raises, exc |-> r.exc] >>
    /\ clock' = clock + 1
    /\ UNCHANGED <<other_vars, pc, client, speech_ok, user_id, transcription, errors, agent_result,
                   execution, response_text, audio_output, result, raised, calls, stage,
                   conversations>>

NextSync == SyncEvents

SpecSync == InitSync /\ [][NextSync]_vars

-----------------------------------------------------------------------------
(* Several handle_audio invocations on one event loop.  Everything up to the  *)
(* synthesis works on the invocation's own locals (the awaits of lines 163,   *)
(* 174, 180 and 189 let other invocations run); _persist_conversation has no  *)
(* await, so its add and commit are one step on the shared log.               *)

\* the log before the turns: a row of an earlier turn of user 1
EarlierLog ==
    << [user_id |-> 1, user_message |-> "Earlier question", ai_response |-> "Earlier answer",
        intent |-> "smalltalk", confidence |-> 90] >>

\* the locals of an invocation for user uid that has not started
NewTurn(uid) ==
    [pc |-> "start", user_id |-> uid, transcription |-> NoneV, errors |-> <<>>,
     agent_result |-> EmptyDict, execution |-> NoExecution, response_text |-> NoneV,
     audio_output |-> NoneV, result |-> NoResult, row |-> 0]

\* what the classifier backend answers in these turns
TurnPayloads ==
    { [text |-> "Sorry, I can't do that.", json |-> "invalid", data |-> EmptyDict],
      [text |-> "{...}", json |-> "dict",
       data |-> AgentDict("smalltalk", KV("reply", "Hi there!"), Absent, "Chatting.", 1000)],
      [text |-> "{...}", json |-> "dict",
       data |-> AgentDict("push_notification", KV("priority", "high"), Absent, "Sending.",
                          NoConfidence)] }

InitTurns ==
    /\ pc = "turns"
    /\ signup = <<>>
    /\ users_table = <<>>
    /\ app = <<>>
    /\ session = <<>>
    /\ client \in BOOLEAN
    /\ speech_ok = client
    /\ user_id = 1
    /\ transcription = NoneV
    /\ errors = <<>>
    /\ agent_result = EmptyDict
    /\ execution = NoExecution
    /\ response_text = NoneV
    /\ audio_output = NoneV
    /\ result = NoResult
    /\ raised = NoneV
    /\ calls = NoCalls
    /\ stage = NoStage
    /\ conversations = EarlierLog
    /\ calendar_events = <<>>
    /\ clock = 1
    /\ last_sync = <<>>
    /\ cal_event = EmptyDict
    /\ entry = NoneV
    /\ turns \in [1..MaxTurns -> {NewTurn(1), NewTurn(2)}]
    /\ pair = <<>>

\* lines 161-189 of one invocation: transcribe, classify, dispatch, resolve
\* the reply, synthesize
Respond(t) ==
    /\ turns[t].pc = "start"
    /\ \E file_exists \in BOOLEAN, first \in {"ok", "error"}, payload \in TurnPayloads :
         \E tr \in {transcribe(speech_ok, file_exists, "text")} :
         \E heard \in {NormalizeTranscription(IF tr.raises THEN "" ELSE tr.value)} :
         \E agent \in {run_voice_agent(client, first, "ok", payload)} :
         \E ex \in {execute_intent(IntentOf(agent.value), ParametersOf(agent.value),
                                    FollowUpOf(agent.value), NoEnv, calendar_events,
                                    turns[t].user_id, clock)} :
         \E reply \in {ResolveReply(ex.value.response_text, agent.value)} :
             turns' = [turns EXCEPT ![t] =
                 IF agent.raises \/ FloatRaises(ConfidenceOf(agent.value)) \/ ex.raises
                 THEN [@ EXCEPT !.pc = "raised", !.transcription = heard]
                 ELSE [@ EXCEPT !.pc = "persist",
                                !.transcription = heard,
                                !.errors = ExtendErrors(IF tr.raises
                                                        THEN <<"Transcription failed: " \o tr.exc>>
                                                        ELSE <<>>, ex.value.errors),
                                !.agent_result = agent.value,
                                !.execution = ex.value,
                                !.response_text = reply,
                                !.audio_output = synthesize(speech_ok, reply, "ok")]]
    /\ UNCHANGED <<pc, client, speech_ok, user_id, transcription, errors, agent_result,
                   execution, response_text, audio_output, result, raised, calls, stage,
                   conversations, calendar_events, clock, last_sync, cal_event, entry, ext_vars>>

\* lines 191-207 of one invocation: the log row is added and committed, and
\* the result returned; row is the primary key the insert gets
PersistTurn(t) ==
    /\ turns[t].pc = "persist"
    /\ \E commit \in CommitOutcomes :
         \E r \in {persist_conversation(conversations, turns[t].user_id,
                                          turns[t].transcription, turns[t].response_text,
                                          IntentOf(turns[t].agent_result),
                                          ConfidenceOf(turns[t].agent_result), commit)} :
             /\ conversations' = r.table
             /\ turns' = [turns EXCEPT ![t] =
                   IF r.raises THEN [@ EXCEPT !.pc = "raised"]
                   ELSE [@ EXCEPT !.pc = "done",
                                  !.row = Len(r.table),
                                  !.result =
                                      [transcription |-> turns[t].transcription,
                                       response_text |-> turns[t].response_text,
                                       audio_path |-> turns[t].audio_output,
                                       intent |-> IntentOf(turns[t].agent_result),
                                       confidence |-> ConfidenceOf(turns[t].agent_result),
                                       calendar_events |-> turns[t].execution.calendar_events,
                                       notifications |-> turns[t].execution.notifications,
                                       errors |-> turns[t].errors]]]
    /\ UNCHANGED <<pc, client, speech_ok, user_id, transcription, errors, agent_result,
                   execution, response_text, audio_output, result, raised, calls, stage,
                   calendar_events, clock, last_sync, cal_event, entry, ext_vars>>

NextTurns == \E t \in 1..MaxTurns : Respond(t) \/ PersistTurn(t)

SpecTurns == InitTurns /\ [][NextTurns]_vars

-----------------------------------------------------------------------------
(* Rendering one calendar event: _format_calendar_response's loop body on an  *)
(* event of the provider.                                                      *)

\* start and end values as the provider may send them
TimeValues ==
    {"", "2024-10-19T18:00:00Z", "2024-10-19T18:00:00+02:00", "2024-01-05T00:05:00",
     "2024-07-04T12:30:00Z", "tomorrow", "2024-13-01T00:00:00Z", "2024-10-19T25:00:00Z"}

\* {key: {"dateTime": v}}, {key: {"date": ...}}, or no key
TimeFields(key) ==
    {EmptyDict, (key :> ("date" :> "2024-10-20"))}
        \cup { (key :> ("dateTime" :> v)) : v \in TimeValues }

InitFormat ==
    /\ pc = "format"
    /\ signup = <<>>
    /\ users_table = <<>>
    /\ app = <<>>
    /\ session = <<>>
    /\ client = FALSE
    /\ speech_ok = FALSE
    /\ user_id = 1
    /\ transcription = NoneV
    /\ errors = <<>>
    /\ agent_result = EmptyDict
    /\ execution = NoExecution
    /\ response_text = NoneV
    /\ audio_output = NoneV
    /\ result = NoResult
    /\ raised = NoneV
    /\ calls = NoCalls
    /\ stage = NoStage
    /\ conversations = <<>>
    /\ calendar_events = <<>>
    /\ clock = 1
    /\ last_sync = <<>>
    /\ cal_event \in { s @@ e @@ KV("summary", t) @@ KV("location", l) :
                          s \in TimeFields("start"), e \in TimeFields("end"),
                          t \in {Absent, "Flight to SFO"}, l \in {Absent, "SFO"} }
    /\ entry = NoneV
    /\ turns = <<>>
    /\ pair = <<>>

\* lines 391-402
FormatEvent ==
    /\ pc = "format"
    /\ entry = NoneV
    /\ entry' = EventLine(cal_event)
    /\ UNCHANGED <<pc, client, speech_ok, user_id, transcription, errors, agent_result,
                   execution, response_text, audio_output, result, raised, calls, stage,
                   conversations, calendar_events, clock, last_sync, cal_event, turns, ext_vars>>

NextFormat == FormatEvent

SpecFormat == InitFormat /\ [][NextFormat]_vars

-----------------------------------------------------------------------------
(* Properties of the turn pipeline *)

\* the turn returned a VoiceInteractionResult
Returned == pc = "done"

\* the handler selected by the dispatch ran to its end or raised
Dispatched == stage.execute /= "pending"

\* a parameter that is missing, null or empty
Blank(parameters, key) == key \notin DOMAIN parameters \/ parameters[key] \in {"", NoneV}

\* C1: every result handle_audio returns has a non-empty transcription and a
\* non-empty response_text.
C1_ResultTextsNonEmpty ==
    Returned => (result.transcription /= "" /\ result.response_text /= "")

\* C2: no exception escapes handle_audio: whichever stage fails, the turn ends
\* by returning a result.
C2_NothingEscapes == pc /= "raised" /\ raised = NoneV

\* C3: when transcribe raised, handle_audio returns, the returned error list
\* has a 'Transcription failed' entry, classification and dispatch ran, and
\* the response_text is the reply of the executed handler.
C3_TranscriptionFailure ==
    (stage.transcribe = "raised" /\ pc \in {"done", "raised"}) =>
        /\ Returned
        /\ \E i \in 1..Len(result.errors) : Contains(result.errors[i], "Transcription failed")
        /\ stage.classify = "returned"
        /\ stage.execute = "returned"
        /\ result.response_text = stage.reply

\* C4: run_voice_agent never raises, and when the client is unconfigured or
\* the payload does not parse to a mapping it returns intent 'unknown' with
\* confidence 0.0.
C4_AgentNeverRaises ==
    /\ stage.classify /= "raised"
    /\ (stage.classify = "returned" /\ stage.backend \in {"unconfigured", "invalid", "list"}) =>
          (agent_result["intent"] = "unknown" /\ agent_result["confidence"] = 0)

\* C5: an intent outside the dispatch table (unknown, empty or missing
\* included) gets the fixed unhandled-intent reply, dispatch adds no error,
\* and the lookup does not raise.
C5_UnhandledIntent ==
    (Dispatched /\ IntentOf(agent_result) \notin KnownIntents) =>
        /\ stage.execute = "returned"
        /\ execution.response_text = UnhandledReply
        /\ response_text = UnhandledReply
        /\ execution.errors = <<>>
        /\ Len(errors) = (IF stage.transcribe = "raised" THEN 1 ELSE 0)
        /\ (Returned => result.response_text = UnhandledReply)

C5_Witness ==
    /\ Returned
    /\ "intent" \in DOMAIN agent_result
    /\ agent_result["intent"] = "book_flight"
    /\ result.response_text = UnhandledReply
    /\ stage.transcribe = "raised"
    /\ Len(result.errors) = 1

\* C6: push_notification with neither message nor content returns the
\* clarifying question with no errors, no notifications and no call to the
\* push client, whatever the other parameters.
C6_PushWithoutMessage ==
    (Dispatched /\ stage.handler = "push_notification"
       /\ Blank(ParametersOf(agent_result), "message")
       /\ Blank(ParametersOf(agent_result), "content")) =>
        /\ stage.execute = "returned"
        /\ execution.response_text
             = "What would you like me to include in the push notification?"
        /\ execution.errors = <<>>
        /\ execution.notifications = <<>>
        /\ calls.pushover = 0

\* C7: send_email asks for the recipient when it is absent (whether or not
\* the body is there), asks for the body when only the body is absent, and
\* in both cases reports no error and does not call the email client.
C7_EmailRecipientFirst ==
    LET parameters == ParametersOf(agent_result)
        no_recipient == Blank(parameters, "to_email") /\ Blank(parameters, "recipient")
        no_body == Blank(parameters, "body") /\ Blank(parameters, "message")
    IN  (Dispatched /\ stage.handler = "send_email" /\ (no_recipient \/ no_body)) =>
            /\ stage.execute = "returned"
            /\ execution.response_text
                 = (IF no_recipient
                    THEN "Who should I email? Please provide an email address."
                    ELSE "What would you like me to say in the email?")
            /\ execution.errors = <<>>
            /\ execution.notifications = <<>>
            /\ calls.sendgrid = 0

C7_Witness ==
    /\ Returned
    /\ stage.handler = "send_email"
    /\ DOMAIN ParametersOf(agent_result) = {}
    /\ result.response_text = "Who should I email? Please provide an email address."
    /\ result.errors = <<>>

\* a calendar_lookup whose client call returned no events and that produced
\* no errors
EmptyLookup ==
    /\ Dispatched
    /\ stage.handler = "calendar_lookup"
    /\ stage.execute = "returned"
    /\ calls.calendar = 1
    /\ execution.calendar_events = <<>>
    /\ execution.errors = <<>>

\* C8 as claimed: a calendar_lookup with zero events and no errors replies
\* "I could not find any matching events in your calendar."
C8_NoEventsFallbackReply == EmptyLookup => execution.response_text = NoEventsReply

\* C8 as amended: a calendar_lookup with zero events and no errors replies
\* "I didn't find any upcoming events that match your request."
C8_NoEventsReply ==
    EmptyLookup =>
        execution.response_text = "I didn't find any upcoming events that match your request."

C8_Witness == EmptyLookup /\ Returned /\ result.calendar_events = <<>> /\ result.errors = <<>>

\* every stage of the turn succeeded
AllStagesSucceeded ==
    /\ Returned
    /\ stage.transcribe = "returned"
    /\ stage.heard /= ""
    /\ stage.backend = "dict"
    /\ "intent" \in DOMAIN agent_result
    /\ stage.execute = "returned"
    /\ execution.errors = <<>>
    /\ stage.synthesize = "ok"
    /\ stage.persist = "committed"

\* C10: when every stage succeeds the result carries the stage outputs
\* unchanged: the transcribe output, the classifier's intent, the handler's
\* event list and the (non-null) reference synthesize returned.
C10_PassThrough ==
    AllStagesSucceeded =>
        /\ result.transcription = stage.heard
        /\ result.intent = agent_result["intent"]
        /\ result.calendar_events = stage.events
        /\ result.calendar_events = execution.calendar_events
        /\ result.audio_path = audio_output
        /\ result.audio_path /= NoneV

C10_Witness ==
    /\ AllStagesSucceeded
    /\ result.transcription = "Check my flights next week"
    /\ result.intent = "calendar_lookup"
    /\ result.calendar_events = <<EvNoId>>
    /\ result.audio_path /= NoneV

-----------------------------------------------------------------------------
(* Properties of the calendar sync *)

\* the external ids of an event list
ExternalIds(events) ==
    { Get(events[i], "id") : i \in { j \in 1..Len(events) : Truthy(Get(events[j], "id")) } }

\* C9: a sync of the events that the sync before it wrote (same external ids,
\* same fields) leaves the table as the first sync left it, with exactly one
\* row for each (user id, external id) of the events.
C9_SyncIdempotent ==
    [][ (/\ last_sync /= <<>>
         /\ ~last_sync[1].raises
         /\ last_sync' /= last_sync \/ clock' /= clock
         /\ last_sync'[1].events = last_sync[1].events)
        => (/\ calendar_events' = calendar_events
            /\ \A id \in ExternalIds(last_sync[1].events) :
                 Cardinality(Matches(calendar_events', user_id, id)) = 1) ]_vars

-----------------------------------------------------------------------------
(* Reply resolution *)

\* C11: the resolved reply is the handler's reply when that is not empty,
\* otherwise the classifier's summary, otherwise (summary missing or empty)
\* the generic acknowledgement; it is never empty.
C11_ReplyResolution ==
    (stage.execute = "returned") =>
        /\ response_text =
             (IF stage.reply /= "" THEN stage.reply
              ELSE IF Truthy(Get(agent_result, "summary")) THEN agent_result["summary"]
              ELSE "I processed your request.")
        /\ response_text /= ""

-----------------------------------------------------------------------------
(* Synthesis *)

\* the synthesis step ran and had nothing to return: the adapter is
\* unconfigured, the text is blank, or the backend failed
SynthesisFailed ==
    /\ stage.synthesize /= "pending"
    /\ \/ ~speech_ok
       \/ Strip(response_text) = ""
       \/ stage.synthesize \in SynthBackend \ SynthWrites

\* C13: when the adapter is unconfigured, the text is blank or the backend
\* fails, synthesize returns no audio reference and does not raise, the error
\* list holds only the transcription and handler errors, the turn goes on to
\* its persistence step, and a returned result has a null audio_path.
C13_SynthesisBestEffort ==
    SynthesisFailed =>
        /\ audio_output = NoneV
        /\ Len(errors) = (IF stage.transcribe = "raised" THEN 1 ELSE 0) + Len(execution.errors)
        /\ pc \in {"persist", "done", "raised"}
        /\ (pc = "raised" => stage.persist = "raised")
        /\ (Returned => (result.audio_path = NoneV /\ result.errors = errors))

C13_Witness ==
    /\ Returned
    /\ speech_ok
    /\ stage.synthesize = "fallback_raise"
    /\ result.response_text = "Hi there!"
    /\ result.audio_path = NoneV
    /\ result.errors = <<>>

-----------------------------------------------------------------------------
(* The handlers *)

\* C14: for every intent and every parameters mapping, malformed values
\* included, _execute_intent returns a mapping with response_text,
\* calendar_events, notifications and errors, and never raises.
C14_HandlersNeverRaise ==
    Dispatched =>
        /\ stage.execute = "returned"
        /\ DOMAIN execution = {"response_text", "calendar_events", "notifications", "errors"}

\* the calendar handler did not get events from the client: the integration
\* is unconfigured, or the call was not made or threw
CalendarCallFailed ==
    \/ calls.calendar = 0
    \/ (execution.errors /= <<>> /\ execution.errors[1] = "Calendar lookup failed: HttpError")

\* C15: in the calendar_lookup handler an unconfigured integration or a
\* remote call that throws appends an error and leaves the event list empty,
\* and a calendar result with errors always has an empty calendar_events list.
C15_CalendarErrorsNoEvents ==
    (Dispatched /\ stage.handler = "calendar_lookup") =>
        /\ stage.execute = "returned"
        /\ (CalendarCallFailed =>
              (Len(execution.errors) = 1 /\ execution.calendar_events = <<>>))
        /\ (execution.errors /= <<>> => execution.calendar_events = <<>>)

\* the push_notification handler ran with a message
PushReady ==
    /\ Dispatched
    /\ stage.handler = "push_notification"
    /\ ~(Blank(ParametersOf(agent_result), "message")
           /\ Blank(ParametersOf(agent_result), "content"))

\* the send_email handler ran with a recipient and a body
EmailReady ==
    /\ Dispatched
    /\ stage.handler = "send_email"
    /\ ~(Blank(ParametersOf(agent_result), "to_email")
           /\ Blank(ParametersOf(agent_result), "recipient"))
    /\ ~(Blank(ParametersOf(agent_result), "body")
           /\ Blank(ParametersOf(agent_result), "message"))

\* the client of the handler is unconfigured or its call throws
SendFails == ~stage.env.configured \/ stage.env.call = "raise"

\* C16: push_notification and send_email with their required parameters:
\* when the client is unconfigured or its call throws, the result has exactly
\* one error, no notification and the 'I could not send ...' reply; otherwise
\* exactly one notification of the handler's channel, no error and the
\* success reply.
C16_SendOutcome ==
    (PushReady \/ EmailReady) =>
        /\ stage.execute = "returned"
        /\ IF SendFails
           THEN /\ Len(execution.errors) = 1
                /\ execution.notifications = <<>>
                /\ execution.response_text =
                     (IF PushReady THEN "I could not send the push notification."
                      ELSE "I could not send the email.")
           ELSE /\ execution.errors = <<>>
                /\ Len(execution.notifications) = 1
                /\ execution.notifications[1].channel =
                     (IF PushReady THEN "pushover" ELSE "sendgrid")
                /\ execution.response_text =
                     (IF PushReady THEN "I sent your push notification."
                      ELSE "I sent the email as requested.")

-----------------------------------------------------------------------------
(* Timestamp rendering *)

\* '{Month abbrev} {day} at {hour:minute AM/PM}' of the parseable values
Rendering ==
    ("2024-10-19T18:00:00Z" :> "Oct 19 at 06:00 PM")
        @@ ("2024-10-19T18:00:00+02:00" :> "Oct 19 at 06:00 PM")
        @@ ("2024-01-05T00:05:00" :> "Jan 05 at 12:05 AM")
        @@ ("2024-07-04T12:30:00Z" :> "Jul 04 at 12:30 PM")
        @@ ("2024-10-20" :> "Oct 20 at 12:00 AM")

\* the start and end values of the rendered event
StartValue == EventTime(cal_event, "start")

EndValue == EventTime(cal_event, "end")

\* a timestamp as the spec renders it: unparsable or absent values become
\* 'an unspecified time'
DisplayClaimed(value) ==
    IF value \in DOMAIN Rendering THEN Rendering[value] ELSE "an unspecified time"

\* a timestamp as rendered: an absent or empty value becomes 'an unspecified
\* time', an unparsable one is shown as it came
DisplayRaw(value) ==
    IF value \in DOMAIN Rendering THEN Rendering[value]
    ELSE IF value \in {NoneV, ""} THEN "an unspecified time"
    ELSE value

\* the line of the event, given the renderings of its start and its end ("" for
\* no end)
LineWith(start_display, end_display) ==
    "- " \o GetD(cal_event, "summary", "Untitled event") \o " on " \o start_display
        \o (IF end_display /= "" /\ end_display /= start_display
            THEN " until " \o end_display ELSE "")
        \o (IF "location" \in DOMAIN cal_event THEN " at " \o cal_event["location"] ELSE "")

\* C17 as claimed: a parseable start is rendered as 'Mon DD at HH:MM AM/PM',
\* an unparsable or absent start as 'an unspecified time', and the end is left
\* out when it is absent or renders as the start does.
C17_UnparsableUnspecified ==
    (entry /= NoneV /\ EndValue \in DOMAIN Rendering \cup {NoneV, ""}) =>
        entry = LineWith(DisplayClaimed(StartValue),
                         IF EndValue \in {NoneV, ""} THEN "" ELSE DisplayClaimed(EndValue))

\* C17 as amended: a parseable start or end is rendered as 'Mon DD at HH:MM
\* AM/PM', an absent or empty start as 'an unspecified time', an unparsable
\* start or end as the raw value, and the end is left out when it is absent
\* or renders as the start does.
C17_TimestampRendering ==
    entry /= NoneV =>
        entry = LineWith(DisplayRaw(StartValue),
                         IF EndValue \in {NoneV, ""} THEN "" ELSE DisplayRaw(EndValue))

C17_Witness ==
    /\ StartValue = "2024-10-19T18:00:00Z"
    /\ EndValue = "2024-10-19T18:00:00+02:00"
    /\ entry = "- Flight to SFO on Oct 19 at 06:00 PM at SFO"

-----------------------------------------------------------------------------
(* The classifier adapter *)

\* C18: every mapping run_voice_agent returns has the keys intent,
\* confidence, parameters, follow_up and summary.
C18_AgentResultNormalized ==
    (stage.classify = "returned") =>
        {"intent", "confidence", "parameters", "follow_up", "summary"} \subseteq DOMAIN agent_result

\* C20: within one turn the transcription backend, the classifier backend,
\* each integration client and the synthesis backend are called at most once.
C20_NoRetries ==
    /\ calls.transcribe <= 1
    /\ calls.classifier <= 1
    /\ calls.calendar <= 1
    /\ calls.pushover <= 1
    /\ calls.sendgrid <= 1
    /\ calls.synthesize <= 1

-----------------------------------------------------------------------------
(* The conversation log *)

\* the log rows of a user
RowsOf(log, uid) == { i \in 1..Len(log) : log[i].user_id = uid }

\* the invocations for a user that returned a result
DoneTurns(uid) == { t \in 1..MaxTurns : turns[t].pc = "done" /\ turns[t].user_id = uid }

\* C12: every turn that returned has its log row, carrying the result's
\* transcription, reply and intent and the confidence as an integer
\* percentage within 0..100; the log keeps its earlier rows, and each user
\* has exactly one more row per returned turn.
C12_OneRowPerTurn ==
    /\ SubSeq(conversations, 1, Len(EarlierLog)) = EarlierLog
    /\ \A uid \in {1, 2} :
         Cardinality(RowsOf(conversations, uid))
           = Cardinality(RowsOf(EarlierLog, uid)) + Cardinality(DoneTurns(uid))
    /\ \A t \in 1..MaxTurns :
         turns[t].pc = "done" =>
            /\ turns[t].row \in RowsOf(conversations, turns[t].user_id)
            /\ conversations[turns[t].row].user_message = turns[t].result.transcription
            /\ conversations[turns[t].row].ai_response = turns[t].result.response_text
            /\ conversations[turns[t].row].intent = turns[t].result.intent
            /\ conversations[turns[t].row].confidence * 10 = turns[t].result.confidence
            /\ conversations[turns[t].row].confidence \in 0..100

C12_Witness ==
    /\ \A t \in 1..MaxTurns : turns[t].pc = "done" /\ turns[t].user_id = 1
    /\ Len(conversations) = Len(EarlierLog) + MaxTurns
    /\ conversations[Len(conversations)].confidence = 100
    /\ conversations[Len(conversations)].ai_response = "Hi there!"

-----------------------------------------------------------------------------
(* handle_audio as one function of what its backends do *)

\* handle_audio ended by raising exc
Escapes(exc, heard, handler, log, table, called) ==
    [raises |-> TRUE, exc |-> exc, result |-> NoResult, heard |-> heard,
     handler |-> handler, log |-> log, table |-> table, called |-> called]

\* the one element of a singleton; { body : local \in {value} } binds a
\* local to its value once, as an assignment does
The(S) == CHOOSE x \in S : TRUE

\* handle_audio, lines 186-207: persist, synthesize, build the result
handle_audio_persisted(in, configured, heard, errs, intent, confidence, ex, reply, saved) ==
    IF saved.raises
    THEN Escapes(saved.exc, heard, HandlerOf(intent), saved.table, ex.table, ex.called)
    ELSE [raises |-> FALSE, exc |-> NoneV,
          result |-> [transcription |-> heard,
                      response_text |-> reply,
                      audio_path |-> synthesize(configured, reply, in.synth),
                      intent |-> intent,
                      confidence |-> confidence,
                      calendar_events |-> ex.value.calendar_events,
                      notifications |-> ex.value.notifications,
                      errors |-> ExtendErrors(errs, ex.value.errors)],
          heard |-> heard, handler |-> HandlerOf(intent), log |-> saved.table,
          table |-> ex.table, called |-> ex.called]

\* handle_audio, lines 179-186: after the handler ran
handle_audio_executed(in, configured, uid, log, heard, errs, agent, ex) ==
    IF ex.raises
    THEN Escapes(ex.exc, heard, HandlerOf(IntentOf(agent.value)), log, ex.table, ex.called)
    ELSE The({ handle_audio_persisted(in, configured, heard, errs, IntentOf(agent.value),
                                      ConfidenceOf(agent.value), ex, reply, saved) :
                 reply \in {ResolveReply(ex.value.response_text, agent.value)},
                 saved \in {persist_conversation(log, uid, heard,
                                                 ResolveReply(ex.value.response_text,
                                                              agent.value),
                                                 IntentOf(agent.value),
                                                 ConfidenceOf(agent.value), in.commit)} })

\* handle_audio, lines 172-179: after the classifier answered
handle_audio_classified(in, configured, uid, log, table, tick, heard, errs, agent) ==
    IF agent.raises THEN Escapes(agent.exc, heard, "none", log, table, <<>>)
    ELSE IF FloatRaises(ConfidenceOf(agent.value))
    THEN Escapes("TypeError", heard, "none", log, table, <<>>)
    ELSE The({ handle_audio_executed(in, configured, uid, log, heard, errs, agent, ex) :
                 ex \in {execute_intent(IntentOf(agent.value), ParametersOf(agent.value),
                                        FollowUpOf(agent.value), in.env, table, uid, tick)} })

\* VoicePersonalAssistant.handle_audio.  in: what the backends do in this turn
\* (file_exists, backend, first, retry, payload, env, synth, commit); log and
\* table: the conversations and calendar_events tables before the turn.
\* heard is the text handed to the classifier, handler the handler dispatched.
handle_audio(in, configured, uid, log, table, tick) ==
    The({ handle_audio_classified(
              in, configured, uid, log, table, tick,
              NormalizeTranscription(IF tr.raises THEN "" ELSE tr.value),
              IF tr.raises THEN <<"Transcription failed: " \o tr.exc>> ELSE <<>>,
              agent) :
            tr \in {transcribe(configured, in.file_exists, in.backend)},
            agent \in {run_voice_agent(configured, in.first, in.retry, in.payload)} })

-----------------------------------------------------------------------------
(* Two turns of one user from the same tables, with the same audio, the same *)
(* integrations and the same classifier answer but for its confidence.        *)

\* the answer with its confidence replaced (left out for NoConfidence)
WithConfidence(data, confidence) ==
    [k \in DOMAIN data \ {"confidence"} |-> data[k]]
        @@ (IF confidence = NoConfidence THEN EmptyDict ELSE ("confidence" :> confidence))

\* classifier answers, one or more for each handler
PairData ==
    { AgentDict("calendar_lookup", KV("keyword", "flight"), Absent, "Checking your flights.", 0),
      AgentDict("push_notification", KV("message", "Boarding at 6pm"), Absent, "Sending.", 0),
      AgentDict("push_notification", EmptyDict, Absent, "Sending.", 0),
      AgentDict("send_email", KV("to_email", "ana@example.com") @@ KV("body", "See you at the gate."),
                Absent, "Emailing.", 0),
      AgentDict("smalltalk", KV("reply", "Hi there!"), Absent, "Chatting.", 0),
      AgentDict("clarification", EmptyDict, "When do you leave?", "Asking.", 0),
      AgentDict("book_flight", EmptyDict, Absent, "Booking.", 0) }

\* what the backends do in the two turns
PairInputs ==
    { [file_exists |-> TRUE, backend |-> b, first |-> "ok", retry |-> "ok",
       payload |-> [text |-> "{...}", json |-> "dict", data |-> d],
       env |-> e, synth |-> "ok", commit |-> "ok"] :
        b \in {"raise", "text"}, d \in PairData,
        e \in UNION { Envs(h, EmptyDict) : h \in KnownIntents } }

NoOutcome == [none |-> TRUE]

InitPair ==
    /\ pc = "pair"
    /\ signup = <<>>
    /\ users_table = <<>>
    /\ app = <<>>
    /\ session = <<>>
    /\ client = TRUE
    /\ speech_ok = TRUE
    /\ user_id = 1
    /\ transcription = NoneV
    /\ errors = <<>>
    /\ agent_result = EmptyDict
    /\ execution = NoExecution
    /\ response_text = NoneV
    /\ audio_output = NoneV
    /\ result = NoResult
    /\ raised = NoneV
    /\ calls = NoCalls
    /\ stage = NoStage
    /\ conversations = EarlierLog
    /\ calendar_events = <<>>
    /\ clock = 1
    /\ last_sync = <<>>
    /\ cal_event = EmptyDict
    /\ entry = NoneV
    /\ turns = <<>>
    /\ pair \in { [in |-> i, confidence |-> c, out |-> <<NoOutcome, NoOutcome>>] :
                    i \in { j \in PairInputs :
                              j.env \in Envs(HandlerOf(IntentOf(j.payload.data)), EmptyDict) },
                    c \in { <<800, other>> : other \in Confidences } }

\* turn k of the pair: handle_audio with the k-th confidence in the answer
PairTurn(k) ==
    /\ pc = "pair"
    /\ pair.out[k] = NoOutcome
    /\ pair' = [pair EXCEPT !.out[k] =
                   handle_audio([pair.in EXCEPT !.payload.data =
                                     WithConfidence(@, pair.confidence[k])],
                                client, user_id, conversations, calendar_events, clock)]
    /\ UNCHANGED <<pc, client, speech_ok, user_id, transcription, errors, agent_result,
                   execution, response_text, audio_output, result, raised, calls, stage,
                   conversations, calendar_events, clock, last_sync, cal_event, entry, turns,
                   session, app, users_table, signup>>

NextPair == \E k \in 1..2 : PairTurn(k)

SpecPair == InitPair /\ [][NextPair]_vars

-----------------------------------------------------------------------------
(* Confidence *)

\* a result without its confidence
WithoutConfidence(r) == [k \in DOMAIN r \ {"confidence"} |-> r[k]]

\* a log without the confidence of its rows
LogWithoutConfidence(log) == [i \in 1..Len(log) |-> WithoutConfidence(log[i])]

\* both turns of the pair have ended
PairRan == pair.out[1] /= NoOutcome /\ pair.out[2] /= NoOutcome

\* C21: two turns whose inputs differ only in the classifier's confidence
\* both return, select the same handler and have the same reply, calendar
\* events, notification outcomes and error list (and the same log row but for
\* its confidence); each carries its own confidence in its result.
C21_ConfidenceAdvisory ==
    PairRan =>
        /\ ~pair.out[1].raises /\ ~pair.out[2].raises
        /\ pair.out[1].handler = pair.out[2].handler
        /\ pair.out[1].called = pair.out[2].called
        /\ pair.out[1].table = pair.out[2].table
        /\ WithoutConfidence(pair.out[1].result) = WithoutConfidence(pair.out[2].result)
        /\ LogWithoutConfidence(pair.out[1].log) = LogWithoutConfidence(pair.out[2].log)
        /\ \A k \in 1..2 :
             pair.out[k].result.confidence
               = (IF pair.confidence[k] = NoConfidence THEN 0 ELSE pair.confidence[k])

-----------------------------------------------------------------------------
(* Empty transcriptions and the error list *)

\* the transcribe step ended with no text: it raised, or returned ""
NothingHeard ==
    /\ stage.transcribe /= "pending"
    /\ (stage.transcribe = "raised" \/ stage.heard = "")

\* the error list has a 'Transcription failed' entry
HasTranscriptionError ==
    \E i \in 1..Len(errors) : Contains(errors[i], "Transcription failed")

\* C22: when the transcribe step raised or returned an empty string, the
\* fixed message is the transcription held by the turn, the text handed to
\* the classifier, the transcription of the result and the user message of
\* the log row; a 'Transcription failed' entry is there exactly when
\* transcribe raised.
C22_EmptyTranscription ==
    /\ NothingHeard =>
          /\ transcription = FallbackTranscription
          /\ (stage.classify /= "pending" => stage.asked = FallbackTranscription)
          /\ (stage.persist = "committed" =>
                conversations[Len(conversations)].user_message = FallbackTranscription)
          /\ (Returned => result.transcription = FallbackTranscription)
    /\ (stage.transcribe /= "pending" =>
          (HasTranscriptionError <=> stage.transcribe = "raised"))

\* transcribe returned "" without raising and the turn returned
C22_Witness ==
    /\ Returned
    /\ stage.transcribe = "returned"
    /\ stage.heard = ""
    /\ stage.asked = FallbackTranscription
    /\ result.transcription = FallbackTranscription
    /\ conversations[1].user_message = FallbackTranscription
    /\ result.errors = <<>>

\* the error list of the handler that ran, empty before it returned
HandlerErrors == IF stage.execute = "returned" THEN execution.errors ELSE <<>>

-----------------------------------------------------------------------------
(* One use of DatabaseManager.get_session, statement by statement.  The      *)
(* table is conversations; rows added in the session are pending until the   *)
(* commit writes them (SessionLocal: autocommit=False, autoflush=False).     *)

\* rows the body may add
SessionRows ==
    { [user_id |-> 1, user_message |-> "Check my flights next week",
       ai_response |-> "Checking your flights.", intent |-> "calendar_lookup",
       confidence |-> 80],
      [user_id |-> 2, user_message |-> "Hello", ai_response |-> "Hi there!",
       intent |-> "smalltalk", confidence |-> 100] }

\* a session that is not opened yet.  body, commit, thrown, added and before
\* record what happened: how the body ended, what the commit did, the
\* exception first thrown, the rows the body added, the table at the opening
NewSession ==
    [pc |-> "new", pending |-> <<>>, exc |-> NoneV, commit_calls |-> 0, rollbacks |-> 0,
     closes |-> 0, body |-> "running", commit |-> "none", thrown |-> NoneV,
     added |-> <<>>, before |-> <<>>]

\* a handler that commits whatever happened
OnExceptionCommit == "commit"

\* lines 136-138: except Exception
OnException == "rollback"

\* session.commit() writes the pending rows
Flush(table, pending) == table \o pending

InitSession ==
    /\ pc = "session"
    /\ signup = <<>>
    /\ users_table = <<>>
    /\ client = FALSE
    /\ speech_ok = FALSE
    /\ user_id = 1
    /\ transcription = NoneV
    /\ errors = <<>>
    /\ agent_result = EmptyDict
    /\ execution = NoExecution
    /\ response_text = NoneV
    /\ audio_output = NoneV
    /\ result = NoResult
    /\ raised = NoneV
    /\ calls = NoCalls
    /\ stage = NoStage
    /\ conversations \in {<<>>, EarlierLog}
    /\ calendar_events = <<>>
    /\ clock = 1
    /\ last_sync = <<>>
    /\ cal_event = EmptyDict
    /\ entry = NoneV
    /\ turns = <<>>
    /\ pair = <<>>
    /\ app = <<>>
    /\ session = NewSession

session_frame == <<pc, client, speech_ok, user_id, transcription, errors, agent_result,
                   execution, response_text, audio_output, result, raised, calls, stage,
                   calendar_events, clock, last_sync, cal_event, entry, turns, pair,
                   app, users_table, signup>>

\* line 132: session = self._Session(); line 134: yield session
OpenSession ==
    /\ pc = "session"
    /\ session.pc = "new"
    /\ session' = [session EXCEPT !.pc = "body", !.before = conversations]
    /\ UNCHANGED <<session_frame, conversations>>

\* the body of the with block: session.add(row)
BodyAdd ==
    /\ session.pc = "body"
    /\ Len(session.added) < MaxAdds
    /\ \E row \in SessionRows :
         session' = [session EXCEPT !.pending = Append(@, row), !.added = Append(@, row)]
    /\ UNCHANGED <<session_frame, conversations>>

\* the body ends (falls off the block or returns from inside it)
BodyReturns ==
    /\ session.pc = "body"
    /\ session' = [session EXCEPT !.pc = "commit", !.body = "returned"]
    /\ UNCHANGED <<session_frame, conversations>>

\* the body raises: the exception is thrown at the yield
BodyRaises ==
    /\ session.pc = "body"
    /\ session' = [session EXCEPT !.pc = OnException, !.body = "raised",
                                  !.exc = "ValueError", !.thrown = "ValueError"]
    /\ UNCHANGED <<session_frame, conversations>>

\* line 135: session.commit()
CommitSession ==
    /\ session.pc = "commit"
    /\ \E outcome \in CommitOutcomes :
         IF outcome = "ok"
         THEN /\ conversations' = Flush(conversations, session.pending)
              /\ session' = [session EXCEPT !.pc = "close", !.pending = <<>>,
                                            !.commit = "ok", !.commit_calls = @ + 1]
         ELSE /\ conversations' = conversations
              /\ session' = [session EXCEPT !.pc = OnException, !.commit = "raise",
                                            !.commit_calls = @ + 1,
                                            !.exc = "OperationalError",
                                            !.thrown = IF @ = NoneV THEN "OperationalError"
                                                       ELSE @]
    /\ UNCHANGED session_frame

\* lines 137-138: session.rollback(); raise
RollbackSession ==
    /\ session.pc = "rollback"
    /\ session' = [session EXCEPT !.pc = "close", !.pending = <<>>, !.rollbacks = @ + 1]
    /\ UNCHANGED <<session_frame, conversations>>

\* line 140: session.close(); the with statement then ends or the exception
\* goes on to the caller
CloseSession ==
    /\ session.pc = "close"
    /\ session' = [session EXCEPT !.pc = IF session.exc = NoneV THEN "returned" ELSE "raised",
                                  !.closes = @ + 1]
    /\ UNCHANGED <<session_frame, conversations>>

NextSession ==
    \/ OpenSession
    \/ BodyAdd
    \/ BodyReturns
    \/ BodyRaises
    \/ CommitSession
    \/ RollbackSession
    \/ CloseSession

SpecSession == InitSession /\ [][NextSession]_vars

\* the with statement has ended
SessionEnded == session.pc \in {"returned", "raised"}

\* C24: one use of get_session calls commit exactly when the body ended
\* without raising, rolls back exactly when the body or the commit raised and
\* then lets that exception out, closes the session once in every case,
\* writes the rows the body added when the commit succeeded, and leaves the
\* table as it was when the body raised (or the commit failed).
C24_TransactionalScope ==
    /\ session.commit_calls <= 1 /\ session.rollbacks <= 1 /\ session.closes <= 1
    /\ (session.body = "raised" =>
          (session.commit_calls = 0 /\ conversations = session.before))
    /\ (SessionEnded =>
          /\ session.closes = 1
          /\ session.commit_calls = (IF session.body = "returned" THEN 1 ELSE 0)
          /\ session.rollbacks
               = (IF session.body = "raised" \/ session.commit = "raise" THEN 1 ELSE 0)
          /\ (session.pc = "raised" <=> session.rollbacks = 1)
          /\ (session.pc = "raised" =>
                (session.exc = session.thrown /\ conversations = session.before))
          /\ (session.pc = "returned" =>
                (session.exc = NoneV /\ conversations = session.before \o session.added))
          /\ LET scope == get_session(session.before,
                                      [raises |-> session.body = "raised",
                                       exc |-> "ValueError",
                                       table |-> session.before \o session.added],
                                      IF session.commit = "raise" THEN "raise" ELSE "ok")
             IN  /\ scope.raises = (session.pc = "raised")
                 /\ scope.exc = session.exc
                 /\ scope.table = conversations)

\* a body that added a row to a log with an earlier row and then raised
C24_Witness ==
    /\ session.pc = "raised"
    /\ session.body = "raised"
    /\ Len(session.added) = 1
    /\ session.rollbacks = 1
    /\ session.closes = 1
    /\ conversations = EarlierLog

-----------------------------------------------------------------------------
(* The voice entry point of app.py: authentication, then one turn *)

\* the users table
RegisteredUsers ==
    << [id |-> 1, username |-> "ana", email |-> "ana@example.com", is_active |-> TRUE],
       [id |-> 2, username |-> "bo", email |-> "bo@example.com", is_active |-> TRUE] >>

\* what jwt.decode finds in the tokens signed with SECRET_KEY: the subject, and
\* whether exp lies ahead ("ahead"), has passed ("passed"), or lies ahead of
\* the UTC clock but not of the local time line 44 compares ("ahead_utc")
JwtPayloads ==
    ("jwt.ana" :> [sub |-> "ana", exp |-> "ahead"])
        @@ ("jwt.bo" :> [sub |-> "bo", exp |-> "ahead"])
        @@ ("jwt.zed" :> [sub |-> "zed", exp |-> "ahead"])
        @@ ("jwt.ana.old" :> [sub |-> "ana", exp |-> "passed"])
        @@ ("jwt.ana.late" :> [sub |-> "ana", exp |-> "ahead_utc"])

\* the access tokens a request may carry: none, empty, a string that is no
\* token of this application, and the tokens above
Tokens == {NoneV, "", "not-a-token"} \cup DOMAIN JwtPayloads

\* the audio inputs: none, or the path of a recording
AudioInputs == {NoneV, "/tmp/gradio/clip.wav"}

\* a verification that does not look at exp
verify_token_unchecked(token) ==
    IF token \notin DOMAIN JwtPayloads
    THEN [raises |-> TRUE, exc |-> "Token is invalid.", value |-> NoneV]
    ELSE [raises |-> FALSE, exc |-> NoneV, value |-> JwtPayloads[token].sub]

\* AuthenticationManager.verify_token: [raises, exc, value]
verify_token(token) ==
    IF token \notin DOMAIN JwtPayloads
    THEN [raises |-> TRUE, exc |-> "Token is invalid.", value |-> NoneV]
    ELSE IF JwtPayloads[token].exp = "passed"
    THEN [raises |-> TRUE, exc |-> "Token is invalid.", value |-> NoneV]
    ELSE IF JwtPayloads[token].exp = "ahead_utc"
    THEN [raises |-> TRUE, exc |-> "Token expired.", value |-> NoneV]
    ELSE [raises |-> FALSE, exc |-> NoneV, value |-> JwtPayloads[token].sub]

NoUser == [id |-> 0, username |-> NoneV, email |-> NoneV, is_active |-> FALSE]

\* get_user_from_token: [raises, auth, exc, value]; auth tells an
\* AuthenticationError from any other exception
get_user_from_token(token, users, commit) ==
    LET decoded == verify_token(token)
        found == { i \in 1..Len(users) : users[i].username = decoded.value }
    IN  IF ~Truthy(token)
        THEN [raises |-> TRUE, auth |-> TRUE, exc |-> "Missing access token. Please log in.",
              value |-> NoUser]
        ELSE IF decoded.raises
        THEN [raises |-> TRUE, auth |-> TRUE, exc |-> decoded.exc, value |-> NoUser]
        ELSE IF found = {}
        THEN [raises |-> TRUE, auth |-> TRUE, exc |-> "User not found.", value |-> NoUser]
        ELSE IF commit = "raise"
        THEN [raises |-> TRUE, auth |-> FALSE, exc |-> "OperationalError", value |-> NoUser]
        ELSE [raises |-> FALSE, auth |-> FALSE, exc |-> NoneV,
              value |-> users[CHOOSE i \in found : TRUE]]

\* _format_calendar_for_json
format_calendar_for_json(events) ==
    [i \in 1..Len(events) |->
        [summary |-> Get(events[i], "summary"),
         start |-> Get(events[i], "start"),
         end |-> Get(events[i], "end"),
         location |-> Get(events[i], "location"),
         status |-> Get(events[i], "status"),
         htmlLink |-> Get(events[i], "htmlLink")]]

\* _format_notifications_for_json
format_notifications_for_json(items) ==
    [i \in 1..Len(items) |-> [channel |-> items[i].channel, status |-> items[i].result]]

\* "\n".join(errors)
RECURSIVE JoinLines(_)
JoinLines(lines) ==
    IF Len(lines) = 0 THEN ""
    ELSE IF Len(lines) = 1 THEN lines[1]
    ELSE lines[1] \o "\n" \o JoinLines(Tail(lines))

\* round(confidence * 100, 1), in tenths of a percent
RoundPct(confidence) == (confidence * 100 * 10) \div 1000

\* the tuple voice_assistant_interface returns
Outputs(heard, said, audio, events, notes, intent, pct, errs) ==
    [transcription |-> heard, response |-> said, audio |-> audio,
     calendar |-> events, notifications |-> notes, intent |-> intent,
     confidence |-> pct, errors |-> errs]

NoOutputs == [none |-> TRUE]

\* the interface returned without constructing the assistant
Refused(outputs, log, table) ==
    [raises |-> FALSE, exc |-> NoneV, value |-> outputs, ran |-> FALSE, uid |-> 0,
     turn |-> NoOutcome, log |-> log, table |-> table]

\* lines 216-231: after handle_audio
voice_assistant_served(user, turn) ==
    IF turn.raises
    THEN [raises |-> TRUE, exc |-> turn.exc, value |-> NoOutputs, ran |-> TRUE,
          uid |-> user.value.id, turn |-> turn, log |-> turn.log, table |-> turn.table]
    ELSE [raises |-> FALSE, exc |-> NoneV,
          value |-> Outputs(turn.result.transcription, turn.result.response_text,
                            turn.result.audio_path,
                            format_calendar_for_json(turn.result.calendar_events),
                            format_notifications_for_json(turn.result.notifications),
                            turn.result.intent, RoundPct(turn.result.confidence),
                            JoinLines(turn.result.errors)),
          ran |-> TRUE, uid |-> user.value.id, turn |-> turn, log |-> turn.log,
          table |-> turn.table]

\* lines 201-216: after get_user_from_token
voice_assistant_looked_up(in, log, table, tick, user) ==
    IF user.raises /\ user.auth
    THEN Refused(Outputs("", user.exc, NoneV, <<>>, <<>>, "unauthenticated", 0, user.exc),
                 log, table)
    ELSE IF user.raises
    THEN [raises |-> TRUE, exc |-> user.exc, value |-> NoOutputs, ran |-> FALSE,
          uid |-> 0, turn |-> NoOutcome, log |-> log, table |-> table]
    ELSE The({ voice_assistant_served(user, turn) :
                 turn \in {handle_audio(in, TRUE, user.value.id, log, table, tick)} })

\* voice_assistant_interface.  in: what the backends of the turn do; lookup:
\* what the commit of the user lookup does; log and table: the conversations
\* and calendar_events tables.  ran: handle_audio was called, for user uid
voice_assistant_interface(audio_input, access_token, in, lookup, users, log, table, tick) ==
    IF ~Truthy(access_token)
    THEN Refused(Outputs("Authentication required.",
                         "Please log in to use the voice assistant.", NoneV, <<>>, <<>>,
                         "unauthenticated", 0,
                         "You must log in before using the assistant."), log, table)
    ELSE IF ~Truthy(audio_input)
    THEN Refused(Outputs("", "Please provide an audio recording to process.", NoneV,
                         <<>>, <<>>, "no_audio", 0, ""), log, table)
    ELSE The({ voice_assistant_looked_up(in, log, table, tick, user) :
                 user \in {get_user_from_token(access_token, users, lookup)} })


\* the event lists the calendar client returns in these requests: none, one
\* event, an event without id, one id twice, a new id before a known one
AppBatches ==
    { <<>>, <<EvFlight>>, <<EvNoId>>, <<EvFlight, EvFlightMoved>>, <<EvBare, EvFlight>> }

\* the classifier answers of these requests
AppData ==
    { AgentDict("calendar_lookup", EmptyDict, Absent, "Checking your flights.", 800),
      AgentDict("smalltalk", KV("reply", "Hi there!"), Absent, "Chatting.", 1000),
      AgentDict("push_notification", KV("message", "Boarding at 6pm"), Absent, "Sending.", 800) }

\* what the integration of the answer's handler does
AppEnvs(data) ==
    IF IntentOf(data) = "calendar_lookup"
    THEN { NoEnv, [NoEnv EXCEPT !.configured = TRUE] }
         \cup { [configured |-> TRUE, call |-> "ok", events |-> b, commit |-> c] :
                  b \in AppBatches, c \in CommitOutcomes }
    ELSE IF IntentOf(data) = "push_notification"
    THEN { [NoEnv EXCEPT !.configured = TRUE, !.call = "ok"] }
    ELSE { NoEnv }

\* what the backends do in the turn of a request
AppInputs ==
    UNION { { [file_exists |-> TRUE, backend |-> "text", first |-> "ok", retry |-> "ok",
               payload |-> [text |-> "{...}", json |-> "dict", data |-> d],
               env |-> e, synth |-> "ok", commit |-> c] :
                e \in AppEnvs(d), c \in CommitOutcomes } : d \in AppData }

\* a turn of smalltalk
QuietTurn ==
    [file_exists |-> TRUE, backend |-> "text", first |-> "ok", retry |-> "ok",
     payload |-> [text |-> "{...}", json |-> "dict",
                  data |-> AgentDict("smalltalk", KV("reply", "Hi there!"), Absent,
                                     "Chatting.", 1000)],
     env |-> NoEnv, synth |-> "ok", commit |-> "ok"]

\* the requests: every token with and without audio, and for the tokens of
\* the two users every turn and every outcome of the user lookup's commit
AppRequests ==
    { [token |-> t, audio |-> a, lookup |-> "ok", in |-> QuietTurn] :
        t \in Tokens, a \in AudioInputs }
    \cup { [token |-> t, audio |-> "/tmp/gradio/clip.wav", lookup |-> l, in |-> i] :
             t \in {"jwt.ana", "jwt.bo"}, l \in CommitOutcomes, i \in AppInputs }

InitApp ==
    /\ pc = "app"
    /\ signup = <<>>
    /\ users_table = <<>>
    /\ app = <<>>
    /\ session = <<>>
    /\ client = TRUE
    /\ speech_ok = TRUE
    /\ user_id = 0
    /\ transcription = NoneV
    /\ errors = <<>>
    /\ agent_result = EmptyDict
    /\ execution = NoExecution
    /\ response_text = NoneV
    /\ audio_output = NoneV
    /\ result = NoResult
    /\ raised = NoneV
    /\ calls = NoCalls
    /\ stage = NoStage
    /\ conversations = EarlierLog
    /\ calendar_events \in { <<>>, <<NewRecord(2, EvFlight, 0)>> }
    /\ clock = 1
    /\ last_sync = <<>>
    /\ cal_event = EmptyDict
    /\ entry = NoneV
    /\ turns = <<>>
    /\ pair = <<>>

\* one click on "Process Voice Command": lines 176-231
VoiceRequest ==
    /\ pc = "app"
    /\ clock <= MaxRequests
    /\ \E request \in AppRequests :
         \E r \in {voice_assistant_interface(request.audio, request.token, request.in,
                                              request.lookup, RegisteredUsers, conversations,
                                              calendar_events, clock)} :
             /\ conversations' = r.log
             /\ calendar_events' = r.table
             /\ app' = << [token |-> request.token, audio |-> request.audio,
                           events |-> IF r.ran THEN request.in.env.events ELSE <<>>,
                           call |-> r] >>
    /\ clock' = clock + 1
    /\ UNCHANGED <<pc, client, speech_ok, user_id, transcription, errors, agent_result,
                   execution, response_text, audio_output, result, raised, calls, stage,
                   last_sync, cal_event, entry, turns, pair, session, users_table, signup>>

NextApp == VoiceRequest

SpecApp == InitApp /\ [][NextApp]_vars

-----------------------------------------------------------------------------
(* Properties of the tables across requests *)

\* the (user id, external id) keys of the synced events
SyncedKeys(table) == { <<table[i].user_id, table[i].external_id>> : i \in 1..Len(table) }

\* the request just served
LastRequest == app[1]

\* C25: no request removes anything: the conversation log keeps every row it
\* had, in place and unchanged; the synced table keeps every row's (user id,
\* external id) and so every key, whatever events the provider returned this
\* time; and every row added to it carries an external id of an event of the
\* request's batch, so an event without an id adds no row.
C25_NeverDeletes ==
    [][ /\ Len(conversations') >= Len(conversations)
        /\ SubSeq(conversations', 1, Len(conversations)) = conversations
        /\ SyncedKeys(calendar_events) \subseteq SyncedKeys(calendar_events')
        /\ Len(calendar_events') >= Len(calendar_events)
        /\ \A i \in 1..Len(calendar_events) :
             /\ calendar_events'[i].user_id = calendar_events[i].user_id
             /\ calendar_events'[i].external_id = calendar_events[i].external_id
        /\ \A i \in (Len(calendar_events) + 1)..Len(calendar_events') :
             /\ Truthy(calendar_events'[i].external_id)
             /\ calendar_events'[i].user_id = app'[1].call.uid
             /\ calendar_events'[i].external_id \in ExternalIds(app'[1].events) ]_vars

\* user 1 has a synced row for evt1 and a logged calendar turn, and the
\* latest lookup returned only an event without id
C25_Witness ==
    /\ app /= <<>>
    /\ LastRequest.call.ran
    /\ LastRequest.call.uid = 1
    /\ ~LastRequest.call.raises
    /\ LastRequest.events = <<EvNoId>>
    /\ Matches(calendar_events, 1, "evt1") /= {}
    /\ Len(conversations) = Len(EarlierLog) + 2


\* the rows of the synced table with a key
RowsWithKey(table, key) ==
    { i \in 1..Len(table) : <<table[i].user_id, table[i].external_id>> = key }

\* the latest request ran a calendar lookup whose upsert found several rows
LookupFoundSeveral ==
    /\ app /= <<>>
    /\ LastRequest.call.ran
    /\ ~LastRequest.call.raises
    /\ \E i \in 1..Len(LastRequest.call.turn.result.errors) :
         Contains(LastRequest.call.turn.result.errors[i], "MultipleResultsFound")

\* C26: the synced table never holds two rows for one (user id, external id),
\* and the single-row lookup of the upsert never fails.
C26_OneRowPerKey ==
    /\ \A key \in SyncedKeys(calendar_events) :
         Cardinality(RowsWithKey(calendar_events, key)) = 1
    /\ ~LookupFoundSeveral


\* the error list reports a failed calendar lookup
HasLookupFailure(errs) ==
    \E i \in 1..Len(errs) : Contains(errs[i], "Calendar lookup failed: ")

\* C27: a calendar-lookup turn either upserts its whole batch or nothing: when
\* the handler reports 'Calendar lookup failed' the synced table is as it was
\* before the turn, and when the table changed every id of the batch has a
\* row of the user and the handler reported no error.
C27_SyncAtomic ==
    [][ (app'[1].call.ran /\ app'[1].call.turn.handler = "calendar_lookup") =>
          /\ (~app'[1].call.raises /\ HasLookupFailure(app'[1].call.turn.result.errors))
                => calendar_events' = calendar_events
          /\ (calendar_events' /= calendar_events) =>
                /\ \A id \in ExternalIds(app'[1].events) :
                     Matches(calendar_events', app'[1].call.uid, id) /= {}
                /\ (~app'[1].call.raises => app'[1].call.turn.result.errors = <<>>) ]_vars

\* the lookup returned a new event before one that has two rows: the upsert
\* raised at the second event, the failure is reported and the first event
\* has no row
C27_Witness ==
    /\ app /= <<>>
    /\ LastRequest.call.ran
    /\ LastRequest.call.uid = 1
    /\ ~LastRequest.call.raises
    /\ LastRequest.events = <<EvBare, EvFlight>>
    /\ LastRequest.call.turn.result.errors = <<"Calendar lookup failed: MultipleResultsFound">>
    /\ Matches(calendar_events, 1, "evt2") = {}
    /\ Cardinality(Matches(calendar_events, 1, "evt1")) = 2

-----------------------------------------------------------------------------
(* One handler and one client for each turn *)

\* the calls to the integration clients in the turn
ClientCalls == calls.calendar + calls.pushover + calls.sendgrid

\* the handlers without an integration
QuietHandlers == {"smalltalk", "clarification", "unhandled"}

\* a turn has at most one client call, made by the handler of that client; a
\* returned turn ran the handler of its intent; its result never has both
\* events and notifications, has notifications only after push_notification
\* or send_email and events only after calendar_lookup; the handlers without
\* an integration call no client and return no events, notifications or
\* errors of their own
OneHandlerOneClient ==
    /\ ClientCalls <= 1
    /\ (calls.calendar = 1 => stage.handler = "calendar_lookup")
    /\ (calls.pushover = 1 => stage.handler = "push_notification")
    /\ (calls.sendgrid = 1 => stage.handler = "send_email")
    /\ (Returned =>
          /\ stage.execute = "returned"
          /\ stage.handler = HandlerOf(result.intent)
          /\ ~(result.calendar_events /= <<>> /\ result.notifications /= <<>>)
          /\ (result.notifications /= <<>> =>
                stage.handler \in {"push_notification", "send_email"})
          /\ (result.calendar_events /= <<>> => stage.handler = "calendar_lookup"))
    /\ ((Dispatched /\ stage.handler \in QuietHandlers) =>
          /\ stage.execute = "returned"
          /\ ClientCalls = 0
          /\ execution.calendar_events = <<>>
          /\ execution.notifications = <<>>
          /\ execution.errors = <<>>
          /\ (Returned => (result.calendar_events = <<>> /\ result.notifications = <<>>)))

-----------------------------------------------------------------------------
(* The voice entry point *)

\* the users a token names: it is a token of the application, not expired,
\* and its subject is a username of the users table
UsersOf(token) ==
    IF token \in DOMAIN JwtPayloads /\ JwtPayloads[token].exp = "ahead"
    THEN { i \in 1..Len(RegisteredUsers) :
             RegisteredUsers[i].username = JwtPayloads[token].sub }
    ELSE {}

\* the request has a token, an audio input, and its token names a user
Resolved(request) ==
    /\ request.token \notin {NoneV, ""}
    /\ request.audio \notin {NoneV, ""}
    /\ UsersOf(request.token) /= {}

\* C29: voice_assistant_interface runs handle_audio only for a request with a
\* non-empty token, an audio input and a token that resolves to an existing
\* user, and then for that user; every other request returns intent
\* 'unauthenticated' ('no_audio' when the token is there and the audio is
\* not) with confidence 0.0, no audio, events or notifications, and leaves
\* the conversation log and the synced table as they were.
C29_ResolvedUserOnly ==
    [][ /\ app'[1].call.ran =>
              /\ Resolved(app'[1])
              /\ \E i \in UsersOf(app'[1].token) : app'[1].call.uid = RegisteredUsers[i].id
        /\ ~app'[1].call.ran =>
              /\ conversations' = conversations
              /\ calendar_events' = calendar_events
              /\ app'[1].call.turn = NoOutcome
        /\ ~Resolved(app'[1]) =>
              /\ ~app'[1].call.ran
              /\ ~app'[1].call.raises
              /\ app'[1].call.value.intent =
                   (IF app'[1].token \in {NoneV, ""} THEN "unauthenticated"
                    ELSE IF app'[1].audio \in {NoneV, ""} THEN "no_audio"
                    ELSE "unauthenticated")
              /\ app'[1].call.value.confidence = 0
              /\ app'[1].call.value.audio = NoneV
              /\ app'[1].call.value.calendar = <<>>
              /\ app'[1].call.value.notifications = <<>> ]_vars

\* after a turn of user 2 that was logged, a request whose token names no
\* user is refused and the log stays
C29_Witness ==
    /\ app /= <<>>
    /\ clock = 3
    /\ LastRequest.token = "jwt.zed"
    /\ LastRequest.audio = "/tmp/gradio/clip.wav"
    /\ ~LastRequest.call.ran
    /\ LastRequest.call.value.intent = "unauthenticated"
    /\ LastRequest.call.value.response = "User not found."
    /\ Len(conversations) = Len(EarlierLog) + 1
    /\ conversations[Len(conversations)].user_id = 2

-----------------------------------------------------------------------------
(* Registration: app.py register_user over the users table *)

\* the usernames typed into the form: three that pass line 55, and one each
\* that is empty, too short, too long, not alphanumeric, underscores only
Usernames == {"ana", "bob", "cy_", "", "al", "abcdefghijklmnopqrstu", "a b", "___"}

\* username.replace("_", "").isalnum()
IsAlnumWithoutUnderscores(username) == username \in {"ana", "bob", "cy", "cy_", "al",
                                                     "abcdefghijklmnopqrstu"}

\* the emails typed into the form (line 54 puts no condition on them)
Emails == {"ana@example.com", "bob@example.com", ""}

\* the password and its confirmation
Passwords == { <<"correct-horse", "correct-horse">>, <<"correct-horse", "correct-horsf">>,
               <<"horse", "horse">> }

\* User.hash_password
hash_password(password) == "bcrypt$" \o password

\* the reply dict of register_user
Reply(success, message) == [success |-> success, message |-> message]

NoReply == Reply(FALSE, "")

\* the rows the filter of lines 64-66 selects
MatchingUsers(table, username, email) ==
    { i \in 1..Len(table) : table[i].username = username \/ table[i].email = email }

\* the unique constraints of User.username and User.email, at the INSERT
ViolatesUnique(table, row) ==
    \E i \in 1..Len(table) : table[i].username = row.username \/ table[i].email = row.email

\* register_user: [raises, exc, value, users]; commit is what session.commit()
\* does when the with block of line 62 is left
register_user(table, username, email, password, confirm_password, commit) ==
    LET existing == MatchingUsers(table, username, email)
        user == [id |-> Len(table) + 1, username |-> username, email |-> email,
                 password_hash |-> hash_password(password)]
    IN  IF username = "" \/ Len(username) < 3 \/ Len(username) > 20
           \/ ~IsAlnumWithoutUnderscores(username)
        THEN [raises |-> FALSE, exc |-> NoneV, users |-> table,
              value |-> Reply(FALSE, "Username must be 3-20 characters and alphanumeric.")]
        ELSE IF password /= confirm_password
        THEN [raises |-> FALSE, exc |-> NoneV, users |-> table,
              value |-> Reply(FALSE, "Passwords do not match.")]
        ELSE IF Len(password) < 8
        THEN [raises |-> FALSE, exc |-> NoneV, users |-> table,
              value |-> Reply(FALSE, "Password must be at least 8 characters long.")]
        ELSE IF Cardinality(existing) > 1
        THEN [raises |-> TRUE, exc |-> "MultipleResultsFound", users |-> table,
              value |-> NoReply]
        ELSE IF commit = "raise"
        THEN [raises |-> TRUE, exc |-> "OperationalError", users |-> table,
              value |-> NoReply]
        ELSE IF existing /= {}
        THEN [raises |-> FALSE, exc |-> NoneV, users |-> table,
              value |-> Reply(FALSE, "An account with that username or email already exists.")]
        ELSE IF ViolatesUnique(table, user)
        THEN [raises |-> TRUE, exc |-> "IntegrityError", users |-> table,
              value |-> NoReply]
        ELSE [raises |-> FALSE, exc |-> NoneV, users |-> Append(table, user),
              value |-> Reply(TRUE, "Registration successful. You can log in now.")]

InitRegister ==
    /\ pc = "register"
    /\ users_table = <<>>
    /\ signup = <<>>
    /\ app = <<>>
    /\ session = <<>>
    /\ client = TRUE
    /\ speech_ok = TRUE
    /\ user_id = 0
    /\ transcription = NoneV
    /\ errors = <<>>
    /\ agent_result = EmptyDict
    /\ execution = NoExecution
    /\ response_text = NoneV
    /\ audio_output = NoneV
    /\ result = NoResult
    /\ raised = NoneV
    /\ calls = NoCalls
    /\ stage = NoStage
    /\ conversations = <<>>
    /\ calendar_events = <<>>
    /\ clock = 1
    /\ last_sync = <<>>
    /\ cal_event = EmptyDict
    /\ entry = NoneV
    /\ turns = <<>>
    /\ pair = <<>>

\* one click on "Register"
RegisterUser ==
    /\ pc = "register"
    /\ clock <= MaxRegistrations
    /\ \E username \in Usernames, email \in Emails, password \in Passwords,
          commit \in CommitOutcomes :
         \E r \in {register_user(users_table, username, email, password[1], password[2],
                                 commit)} :
             /\ users_table' = r.users
             /\ signup' = << [username |-> username, email |-> email,
                             password |-> password[1],
                             confirm_password |-> password[2],
                             before |-> users_table, call |-> r] >>
    /\ clock' = clock + 1
    /\ UNCHANGED <<pc, client, speech_ok, user_id, transcription, errors, agent_result,
                   execution, response_text, audio_output, result, raised, calls, stage,
                   conversations, calendar_events, last_sync, cal_event, entry, turns,
                   pair, session, app>>

NextRegister == RegisterUser

SpecRegister == InitRegister /\ [][NextRegister]_vars

\* the call just served
LastSignup == signup[1]

\* no two rows of the users table share a username or an email
UniqueUsers ==
    \A i, j \in 1..Len(users_table) :
        i /= j => /\ users_table[i].username /= users_table[j].username
                  /\ users_table[i].email /= users_table[j].email

\* the username or the email of the call was taken when it was made
Taken(call) == MatchingUsers(call.before, call.username, call.email) /= {}

\* C30: after any sequence of register_user calls no two users share a
\* username or an email, and a call whose username or email was already taken
\* (also when the username is one user's and the email another's) returns
\* success=False with a message, does not raise, and adds no user.
C30_RegisterUnique ==
    /\ UniqueUsers
    /\ signup /= <<>> /\ Taken(LastSignup) =>
          /\ ~LastSignup.call.raises
          /\ LastSignup.call.value.success = FALSE
          /\ LastSignup.call.value.message /= ""
          /\ users_table = LastSignup.before

====
